---- MODULE Spec2Model ----
(***************************************************************************)
(* The AnyText background service worker: the AI_REQUEST pipeline of       *)
(* browser-extension/background.js (AIServiceManager, initializeAI, the    *)
(* perform* functions with their timeout races, the fallback transformers  *)
(* and handleAIRequest).                                                   *)
(*                                                                         *)
(* Texts are sequences of tokens.  A word token is a maximal run of \w     *)
(* characters, every other character is a token of its own, so that the    *)
(* \b of the source's regular expressions falls exactly on token edges.    *)
(* Template literals that no regular expression is applied to afterwards   *)
(* are kept as single tokens.  Non-ASCII characters are spelled in ASCII   *)
(* ("adios", "si", "plait", ":smile:", ":globe:").                         *)
(*                                                                         *)
(* Time is counted in seconds, each timer holding the seconds it has       *)
(* left; a macrotask (a message, a timer, the settling of a browser        *)
(* promise) together with the microtasks it triggers is one step.          *)
(***************************************************************************)
EXTENDS Integers, Sequences, FiniteSets, TLC

(***************************************************************************)
(* Bounds of the model.                                                    *)
(***************************************************************************)
NReq == 2

\* the longest generated text, in tokens
MaxTokens == 5

\* the createContextMenus invocations that are started
NInv == 3

\* the AI_REQUEST messages the content script sends
NAsk == 1

(***************************************************************************)
(* Tokens and case.                                                        *)
(***************************************************************************)
SentenceEnd == {".", "!", "?"}

Whitespace == {" ", "\n"}

Smile == ":smile:"

\* <<capitalised, lower-case>> forms of the words of the vocabulary: every
\* word a text of the model can hold, or a replacement can write, is listed.
CaseTable ==
  { <<"Hello", "hello">>, <<"No", "no">>, <<"I", "i">>, <<"Perhaps", "perhaps">>,
    <<"Teh", "teh">>, <<"The", "the">>, <<"Cat", "cat">>, <<"Can", "can">>,
    <<"Cannot", "cannot">>, <<"T", "t">>, <<"It", "it">>, <<"S", "s">>,
    <<"Its", "its">>, <<"We", "we">>, <<"Go", "go">>, <<"Thank", "thank">>,
    <<"You", "you">>, <<"Re", "re">>, <<"Your", "your">>, <<"Regards", "regards">>,
    <<"Email", "email">>, <<"Maybe", "maybe">>, <<"Definitely", "definitely">>,
    <<"Recieve", "recieve">>, <<"Receive", "receive">>, <<"Seperate", "seperate">>,
    <<"Separate", "separate">>, <<"Occured", "occured">>, <<"Occurred", "occurred">>,
    <<"Definately", "definately">>, <<"Thier", "thier">>, <<"Their", "their">>,
    <<"There", "there">>, <<"Loose", "loose">>, <<"Lose", "lose">>,
    <<"Affect", "affect">>, <<"Effect", "effect">>, <<"Then", "then">>,
    <<"Than", "than">>, <<"Think", "think">>, <<"Know", "know">>,
    <<"Believe", "believe">>, <<"Might", "might">>, <<"Will", "will">>,
    <<"Work", "work">>, <<"This", "this">>, <<"Hi", "hi">>, <<"Gonna", "gonna">>,
    <<"Going", "going">>, <<"To", "to">>, <<"Be", "be">>, <<"Hard", "hard">>,
    <<"Do", "do">>, <<"Not", "not">>, <<"Package", "package">>, <<"List", "list">>,
    <<"Steps", "steps">>, <<"Summary", "summary">>, <<"Overview", "overview">>,
    <<"Message", "message">>, <<"Poem", "poem">>, <<"A", "a">>, <<"B", "b">>,
    <<"C", "c">>, <<"D", "d">>, <<"E", "e">>, <<"Of", "of">>, <<"Lot", "lot">>,
    <<"Lots", "lots">>, <<"Sorta", "sorta">>, <<"Sort", "sort">>,
    <<"Many", "many">>, <<"Somewhat", "somewhat">>, <<"Want", "want">>,
    <<"Have", "have">> }

LowerWords == {p[2] : p \in CaseTable}

\* the lower-case form of each capitalised word
LowerOf == [w \in {p[1] : p \in CaseTable} |-> (CHOOSE p \in CaseTable : p[1] = w)[2]]

\* the capitalised form of each lower-case word
UpperOf == [w \in LowerWords |-> (CHOOSE p \in CaseTable : p[2] = w)[1]]

\* String.prototype.toLowerCase on one token
ToLowerCase(tok) == IF tok \in DOMAIN LowerOf THEN LowerOf[tok] ELSE tok

\* String.prototype.toUpperCase on the first letter of a lower-case word
ToUpperFirst(tok) == IF tok \in DOMAIN UpperOf THEN UpperOf[tok] ELSE tok

\* [a-z] on the first character of a token
StartsLower(tok) == tok \in LowerWords

LowerText(text) == [i \in 1..Len(text) |-> ToLowerCase(text[i])]

RECURSIVE TrimLeft(_)
TrimLeft(text) ==
  IF text # <<>> /\ Head(text) \in Whitespace THEN TrimLeft(Tail(text)) ELSE text

RECURSIVE TrimRight(_)
TrimRight(text) ==
  IF text # <<>> /\ text[Len(text)] \in Whitespace
    THEN TrimRight(SubSeq(text, 1, Len(text) - 1))
    ELSE text

\* String.prototype.trim
Trim(text) == TrimRight(TrimLeft(text))

\* the same match without the i flag
MatchesAtCS(text, pat) ==
  /\ Len(pat) <= Len(text)
  /\ \A i \in 1..Len(pat) : text[i] = pat[i]

\* does pat (lower-case tokens) match at the head of text, ignoring case
MatchesAtCI(text, pat) ==
  /\ Len(pat) <= Len(text)
  /\ \A i \in 1..Len(pat) : ToLowerCase(text[i]) = pat[i]

\* the same replacement without the g flag: the first match only
ReplaceFirstCI(text, pat, rep) ==
  IF \E k \in 1..Len(text) : MatchesAtCI(SubSeq(text, k, Len(text)), pat)
    THEN LET k == CHOOSE i \in 1..Len(text) :
                    /\ MatchesAtCI(SubSeq(text, i, Len(text)), pat)
                    /\ \A j \in 1..(i - 1) : ~MatchesAtCI(SubSeq(text, j, Len(text)), pat)
         IN  SubSeq(text, 1, k - 1) \o rep \o SubSeq(text, k + Len(pat), Len(text))
    ELSE text

\* text.replace(new RegExp("\\b" + pat + "\\b", "gi"), rep): every
\* non-overlapping match from the left; pat starts and ends with a word
\* token, so both \b hold at token edges.
RECURSIVE ReplaceAllCI(_, _, _)
ReplaceAllCI(text, pat, rep) ==
  IF text = <<>> THEN <<>>
  ELSE IF MatchesAtCI(text, pat)
    THEN rep \o ReplaceAllCI(SubSeq(text, Len(pat) + 1, Len(text)), pat, rep)
    ELSE <<Head(text)>> \o ReplaceAllCI(Tail(text), pat, rep)

\* a chain of .replace calls, applied first to last; rules are <<pat, rep>>
RECURSIVE ApplyRules(_, _)
ApplyRules(text, rules) ==
  IF rules = <<>> THEN text
  ELSE ApplyRules(ReplaceAllCI(text, Head(rules)[1], Head(rules)[2]), Tail(rules))

(***************************************************************************)
(* The fallback transformers.                                              *)
(***************************************************************************)
\* the phrase tables of getFallbackTranslation: <<language, phrase, translation>>
fallbackTranslations ==
  { <<"es", <<"hello">>, <<"hola">>>>, <<"es", <<"goodbye">>, <<"adios">>>>,
    <<"es", <<"thank", " ", "you">>, <<"gracias">>>>,
    <<"es", <<"please">>, <<"por", " ", "favor">>>>,
    <<"es", <<"yes">>, <<"si">>>>, <<"es", <<"no">>, <<"no">>>>,
    <<"fr", <<"hello">>, <<"bonjour">>>>,
    <<"fr", <<"goodbye">>, <<"au", " ", "revoir">>>>,
    <<"fr", <<"thank", " ", "you">>, <<"merci">>>>,
    <<"fr", <<"please">>, <<"s", "'", "il", " ", "vous", " ", "plait">>>>,
    <<"fr", <<"yes">>, <<"oui">>>>, <<"fr", <<"no">>, <<"non">>>>,
    <<"de", <<"hello">>, <<"hallo">>>>,
    <<"de", <<"goodbye">>, <<"auf", " ", "wiedersehen">>>>,
    <<"de", <<"thank", " ", "you">>, <<"danke">>>>,
    <<"de", <<"please">>, <<"bitte">>>>,
    <<"de", <<"yes">>, <<"ja">>>>, <<"de", <<"no">>, <<"nein">>>> }

TranslationUnavailable(languageName) ==
  << "Translation to ", languageName,
     " is currently unavailable. Chrome Built-in AI needs to be enabled in chrome://flags (search for \"Prompt API for Gemini Nano\")." >>

getFallbackTranslation(text, targetLanguage, languageName) ==
  LET lowerText == Trim(LowerText(text))
      hits == {e \in fallbackTranslations : e[1] = targetLanguage /\ e[2] = lowerText}
  IN  IF hits # {}
        THEN (CHOOSE e \in hits : TRUE)[3]
        ELSE TranslationUnavailable(languageName)

\* the corrections object of getFallbackProofreading, in insertion order
corrections ==
  << <<<<"teh">>, <<"the">>>>, <<<<"recieve">>, <<"receive">>>>,
     <<<<"seperate">>, <<"separate">>>>, <<<<"occured">>, <<"occurred">>>>,
     <<<<"definately">>, <<"definitely">>>>, <<<<"thier">>, <<"their">>>>,
     <<<<"there">>, <<"their">>>>, <<<<"your">>, <<"you", "'", "re">>>>,
     <<<<"its">>, <<"it", "'", "s">>>>, <<<<"loose">>, <<"lose">>>>,
     <<<<"affect">>, <<"effect">>>>, <<<<"then">>, <<"than">>>> >>

\* corrected.replace(/\bi\b/g, "I"): case-sensitive
CapitalizeI(text) == [k \in 1..Len(text) |-> IF text[k] = "i" THEN "I" ELSE text[k]]

\* corrected.replace(/([.!?])\s*([a-z])/g, punct + " " + letter.toUpperCase())
RECURSIVE CapitalizeAfterPunct(_)
CapitalizeAfterPunct(text) ==
  IF text = <<>> THEN <<>>
  ELSE IF Head(text) \in SentenceEnd
    THEN LET rest == TrimLeft(Tail(text))
         IN  IF rest # <<>> /\ StartsLower(Head(rest))
               THEN <<Head(text), " ", ToUpperFirst(Head(rest))>>
                      \o CapitalizeAfterPunct(Tail(rest))
               ELSE <<Head(text)>> \o CapitalizeAfterPunct(Tail(text))
    ELSE <<Head(text)>> \o CapitalizeAfterPunct(Tail(text))

getFallbackProofreading(text) ==
  CapitalizeAfterPunct(CapitalizeI(ApplyRules(text, corrections)))

\* the improvements object of getFallbackRewriting, in insertion order
improvements ==
  << <<<<"can", "'", "t">>, <<"cannot">>>>,
     <<<<"won", "'", "t">>, <<"will", " ", "not">>>>,
     <<<<"don", "'", "t">>, <<"do", " ", "not">>>>,
     <<<<"isn", "'", "t">>, <<"is", " ", "not">>>>,
     <<<<"aren", "'", "t">>, <<"are", " ", "not">>>>,
     <<<<"wasn", "'", "t">>, <<"was", " ", "not">>>>,
     <<<<"weren", "'", "t">>, <<"were", " ", "not">>>>,
     <<<<"hasn", "'", "t">>, <<"has", " ", "not">>>>,
     <<<<"haven", "'", "t">>, <<"have", " ", "not">>>>,
     <<<<"hadn", "'", "t">>, <<"had", " ", "not">>>>,
     <<<<"shouldn", "'", "t">>, <<"should", " ", "not">>>>,
     <<<<"wouldn", "'", "t">>, <<"would", " ", "not">>>>,
     <<<<"couldn", "'", "t">>, <<"could", " ", "not">>>>,
     <<<<"mustn", "'", "t">>, <<"must", " ", "not">>>>,
     <<<<"gonna">>, <<"going", " ", "to">>>>,
     <<<<"wanna">>, <<"want", " ", "to">>>>,
     <<<<"gotta">>, <<"have", " ", "to">>>>,
     <<<<"kinda">>, <<"somewhat">>>>,
     <<<<"sorta">>, <<"sort", " ", "of">>>>,
     <<<<"lots", " ", "of">>, <<"many">>>>,
     <<<<"a", " ", "lot", " ", "of">>, <<"many">>>> >>

\* a table that also expands "it's"
getFallbackRewriting_ExpandsIts(text) ==
  ApplyRules(text, improvements \o << <<<<"it", "'", "s">>, <<"it", " ", "is">>>> >>)

getFallbackRewriting(text) == ApplyRules(text, improvements)

\* text.split(/[.!?]+/): the pieces between sentence-ending tokens; cur is
\* the piece being read.  Empty pieces are dropped by the caller's filter.
RECURSIVE SplitSentences(_, _)
SplitSentences(text, cur) ==
  IF text = <<>> THEN <<cur>>
  ELSE IF Head(text) \in SentenceEnd
    THEN <<cur>> \o SplitSentences(Tail(text), <<>>)
    ELSE SplitSentences(Tail(text), Append(cur, Head(text)))

\* .filter((s) => s.trim().length > 0)
NonEmptySentences(pieces) == SelectSeq(pieces, LAMBDA s : Trim(s) # <<>>)

getFallbackSummarization(text) ==
  LET sentences == NonEmptySentences(SplitSentences(text, <<>>))
      n == Len(sentences)
  IN  IF n <= 2 THEN text
      ELSE IF n <= 4 THEN sentences[1] \o <<".", " ">> \o sentences[2] \o <<".">>
      ELSE sentences[1] \o <<".", " ">> \o sentences[n \div 2 + 1] \o <<".", " ">>
             \o sentences[n] \o <<".">>

\* the .replace chains of getFallbackToneChange, one per tone
toneRules(tone) ==
  CASE tone = "professional" ->
         << <<<<"can", "'", "t">>, <<"cannot">>>>,
            <<<<"won", "'", "t">>, <<"will", " ", "not">>>>,
            <<<<"don", "'", "t">>, <<"do", " ", "not">>>>,
            <<<<"isn", "'", "t">>, <<"is", " ", "not">>>>,
            <<<<"i", " ", "think">>, <<"I", " ", "believe">>>>,
            <<<<"kinda">>, <<"somewhat">>>>,
            <<<<"gonna">>, <<"going", " ", "to">>>>,
            <<<<"wanna">>, <<"want", " ", "to">>>>,
            <<<<"yeah">>, <<"yes">>>>,
            <<<<"okay">>, <<"acceptable">>>> >>
    [] tone = "casual" ->
         << <<<<"cannot">>, <<"can", "'", "t">>>>,
            <<<<"will", " ", "not">>, <<"won", "'", "t">>>>,
            <<<<"do", " ", "not">>, <<"don", "'", "t">>>>,
            <<<<"is", " ", "not">>, <<"isn", "'", "t">>>>,
            <<<<"i", " ", "believe">>, <<"I", " ", "think">>>>,
            <<<<"going", " ", "to">>, <<"gonna">>>>,
            <<<<"want", " ", "to">>, <<"wanna">>>> >>
    [] tone = "straightforward" ->
         << <<<<"i", " ", "think", " ", "that", " ", "maybe">>, <<"I", " ", "think">>>>,
            <<<<"perhaps">>, <<>>>>,
            <<<<"might", " ", "be", " ", "able", " ", "to">>, <<"can">>>>,
            <<<<"would", " ", "like", " ", "to">>, <<"want", " ", "to">>>>,
            <<<<"kind", " ", "of">>, <<>>>>,
            <<<<"sort", " ", "of">>, <<>>>> >>
    [] tone = "confident" ->
         << <<<<"i", " ", "think">>, <<"I", " ", "know">>>>,
            <<<<"might">>, <<"will">>>>,
            <<<<"could">>, <<"can">>>>,
            <<<<"maybe">>, <<"definitely">>>>,
            <<<<"probably">>, <<"certainly">>>>,
            <<<<"i", " ", "guess">>, <<"I", " ", "believe">>>> >>
    [] tone = "friendly" ->
         << <<<<"hello">>, <<"Hi", " ", "there">>>>,
            <<<<"thank", " ", "you">>, <<"Thanks", " ", "so", " ", "much">>>>,
            <<<<"regards">>, <<"Best", " ", "wishes">>>> >>
    [] OTHER -> <<>>

\* if (!transformed.match(/[!:smile:]$/)) transformed.replace(/\.$/, "! :smile:")
FriendlyEnding(transformed) ==
  IF transformed # <<>> /\ transformed[Len(transformed)] \in {"!", Smile}
    THEN transformed
  ELSE IF transformed # <<>> /\ transformed[Len(transformed)] = "."
    THEN SubSeq(transformed, 1, Len(transformed) - 1) \o <<"!", " ", Smile>>
  ELSE transformed

getFallbackToneChange(text, tone) ==
  IF tone = "friendly" THEN FriendlyEnding(ApplyRules(text, toneRules(tone)))
  ELSE ApplyRules(text, toneRules(tone))

\* <<word, keyword>>: the words of the vocabulary that contain a keyword
\* of getFallbackGeneration as a substring
SubstringTable ==
  { <<"email", "email">>, <<"emails", "email">>, <<"message", "message">>,
    <<"messages", "message">>, <<"list", "list">>, <<"checklist", "list">>,
    <<"steps", "steps">>, <<"summary", "summary">>, <<"overview", "overview">> }

\* prompt.includes(keyword): the keywords are letters only, so a match lies
\* inside one word token
Includes(prompt, keyword) ==
  \E k \in 1..Len(prompt) : <<prompt[k], keyword>> \in SubstringTable

getFallbackGeneration(text) ==
  LET prompt == Trim(LowerText(text))
  IN  IF Includes(prompt, "email") \/ Includes(prompt, "message")
        THEN <<"Subject: Regarding ">> \o text
               \o <<"\n\nDear [Recipient],\n\nI hope this message finds you well. I wanted to reach out regarding ">>
               \o text
               \o <<".\n\nPlease let me know if you have any questions or if there's anything I can help with.\n\nBest regards,\n[Your Name]">>
      ELSE IF Includes(prompt, "list") \/ Includes(prompt, "steps")
        THEN <<"Here are some key points about ">> \o text
               \o <<":\n\n1. First consideration\n2. Important aspect to remember\n3. Next steps to take\n4. Final recommendations\n\nNote: AI generation is currently unavailable. Enable Chrome Built-in AI in chrome://flags for better results.">>
      ELSE IF Includes(prompt, "summary") \/ Includes(prompt, "overview")
        THEN <<"Overview of ">> \o text
               \o <<":\n\nThis topic involves several key components that are worth considering. The main aspects include the fundamental principles, practical applications, and potential outcomes.\n\nFor more detailed AI-generated content, please enable Chrome Built-in AI in chrome://flags.">>
      ELSE <<"Generated content for \"">> \o text
               \o <<"\":\n\nThis is a basic template response. The topic you've mentioned is interesting and could be expanded upon in several ways. Consider the key aspects, potential applications, and relevant details.\n\nFor advanced AI generation, please enable Chrome Built-in AI in chrome://flags (search for \"Prompt API for Gemini Nano\").">>

(***************************************************************************)
(* Messages.  A field the sender leaves out is undefined: "undefined" for  *)
(* strings and flags, -1 for offsets, <<>> for the position.               *)
(***************************************************************************)
Undefined == "undefined"

FallbackActions ==
  {"translate", "changeTone", "proofread", "rewrite", "summarize", "generate"}

Request(action, text) ==
  [ type |-> "AI_REQUEST", action |-> action, text |-> text,
    targetLanguage |-> Undefined, languageName |-> Undefined,
    tone |-> Undefined, toneName |-> Undefined,
    isRightClick |-> Undefined, position |-> <<>>,
    isInputField |-> Undefined, isFullText |-> Undefined,
    textStart |-> -1, textEnd |-> -1 ]

handleRightClickTranslate(text, languageCode, languageName, position) ==
  [ Request("translate", text) EXCEPT
      !.targetLanguage = languageCode, !.languageName = languageName,
      !.isRightClick = "true", !.position = position ]

handleRightClickAction(action, text, position) ==
  [ Request(action, text) EXCEPT !.isRightClick = "true", !.position = position ]

handleTranslateAction(text, languageCode, languageName, isFullText, start, end) ==
  [ Request("translate", text) EXCEPT
      !.targetLanguage = languageCode, !.languageName = languageName,
      !.isInputField = "true", !.isFullText = isFullText,
      !.textStart = start, !.textEnd = end ]

handleToneChangeAction(text, toneId, toneName, isFullText, start, end) ==
  [ Request("changeTone", text) EXCEPT
      !.tone = toneId, !.toneName = toneName,
      !.isInputField = "true", !.isFullText = isFullText,
      !.textStart = start, !.textEnd = end ]

handleContextAction(actionId, text, isFullText, start, end) ==
  [ Request(actionId, text) EXCEPT
      !.isInputField = "true", !.isFullText = isFullText,
      !.textStart = start, !.textEnd = end ]

\* the message of a request that has not arrived
NoMessage == Request(Undefined, <<>>)

\* the requests of the timed, concurrent specification
CoreMessages ==
  { handleTranslateAction(<<"Hello">>, "es", "Spanish", "false", 2, 7),
    handleRightClickAction("proofread", <<"teh", " ", "cat">>, <<3, 4>>) }

\* the requests of the single-request specification
AllMessages ==
  CoreMessages \cup
  { handleTranslateAction(<<"we", " ", "go">>, "es", "Spanish", "true", 0, 5),
    handleRightClickTranslate(<<"No">>, "fr", "French", <<1, 2>>),
    handleRightClickTranslate(<<"no">>, "es", "Spanish", <<1, 2>>),
    handleToneChangeAction(<<"perhaps">>, "straightforward", "Straightforward", "true", 0, 7),
    handleToneChangeAction(<<"I", " ", "think", " ", "this", " ", "might", " ", "work", ".">>,
                           "confident", "Confident", "false", 1, 24),
    handleToneChangeAction(<<"Hello">>, "friendly", "Friendly", "true", 0, 5),
    handleToneChangeAction(<<"we", " ", "go">>, Undefined, Undefined, "true", 0, 5),
    handleToneChangeAction(<<"I", " ", "think">>, "formal", "Formal", "true", 0, 7),
    handleContextAction("proofread", <<"i", " ", "recieve", " ", "teh", " ", "package">>, "true", 0, 21),
    handleContextAction("rewrite", <<"I", " ", "can", "'", "t", " ", "go">>, "false", 4, 14),
    handleRightClickAction("rewrite", <<"it", "'", "s", " ", "gonna", " ", "be", " ", "hard">>, <<5, 6>>),
    handleRightClickAction("summarize",
      <<"a", ".", " ", "b", ".", " ", "c", ".", " ", "d", ".", " ", "e", ".">>, <<7, 8>>),
    handleContextAction("summarize", <<"we", " ", "go", "!">>, "true", 0, 6),
    handleContextAction("generate", <<"email">>, "true", 0, 5),
    handleContextAction("generate", <<"a", " ", "list">>, "false", 1, 7),
    handleContextAction("generate", <<"poem">>, "true", 0, 4),
    handleContextAction("generate", <<>>, "true", 0, 0),
    handleContextAction("explain", <<"we", " ", "go">>, "true", 0, 5) }

\* the characters that are tokens of their own
NonWordTokens == SentenceEnd \cup Whitespace \cup {"'", ","}

\* the token sequences that are texts: a word token is a maximal run of word
\* characters, so no two word tokens are adjacent
RECURSIVE Texts(_, _)
Texts(vocabulary, n) ==
  IF n = 0 THEN { <<>> }
  ELSE LET shorter == Texts(vocabulary, n - 1)
       IN  shorter \cup
           { Append(t, tok) : <<t, tok>> \in
               { p \in {u \in shorter : Len(u) = n - 1} \X vocabulary :
                   \/ p[1] = <<>>
                   \/ p[2] \in NonWordTokens
                   \/ p[1][Len(p[1])] \in NonWordTokens } }

\* a selection is sent only if something is left of it after trim()
Selections(vocabulary) == {t \in Texts(vocabulary, MaxTokens) : Trim(t) # <<>>}

ProofreadVocabulary == {"i", "Teh", "thier", "its", "cat", ".", " "}

RewriteVocabulary == {"can", "t", "sorta", "lots", "of", "it", "'", " "}

ProofreadExample == <<"I", " ", "recieve", " ", "teh", " ", "package">>

RewriteExample ==
  << "I", " ", "can", "'", "t", " ", "do", " ", "this", ",", " ", "it", "'", "s",
     " ", "gonna", " ", "be", " ", "hard" >>

\* the requests of the specification of the fallback transformers
TextMessages ==
  { handleRightClickAction("proofread", t, <<1, 1>>) :
      t \in Selections(ProofreadVocabulary) \cup {ProofreadExample} }
  \cup
  { handleRightClickAction("rewrite", t, <<1, 1>>) :
      t \in Selections(RewriteVocabulary) \cup {RewriteExample} }

\* what session.prompt can answer
Answers == { <<"The", " ", "cat", "!">> }

(***************************************************************************)
(* Timer delays, in seconds.                                               *)
(***************************************************************************)
ProcessingTimeout == 10
InitializationTimeout == 5
PromptTimeout == 8

(***************************************************************************)
(* State.                                                                  *)
(***************************************************************************)
VARIABLES
  pool,                   \* the AI_REQUEST messages the page side sends
  limit,                  \* how many requests the page side sends
  hasLanguageModel,       \* typeof LanguageModel !== "undefined"
  aiServiceManager,       \* TRUE once initializeAI has constructed the manager
  isInitialized,          \* AIServiceManager.isInitialized
  apiAvailable,           \* AIServiceManager.apiAvailable
  languageModel,          \* AIServiceManager.services.languageModel: a session, 0 = null
  initializationPromise,  \* AIServiceManager.initializationPromise: an attempt, 0 = null
  attempts,               \* where each _performInitialization run stands
  expired,                \* attempts some caller's 5 s ceiling has run out on
  createCalls,            \* number of LanguageModel.create calls made
  rq,                     \* the handleAIRequest calls
  storage,                \* chrome.storage.sync: <<>> or <<aiInputEnhancerSettings>>
  userSettings,           \* background.js userSettings: <<>> = null, or <<settings>>
  hasSelection,           \* background.js hasSelection
  inv,                    \* the createContextMenus invocations
  browser,                \* contextMenus calls the browser has not processed yet
  callbacks,              \* removeAll callbacks waiting to run, in order
  menu,                   \* ids of the menu items that exist
  duplicates,             \* ids a create call was made for while the id existed
  batches,                \* batches of create calls since the last removeAll
  lastFinished,           \* the invocation that finished last, 0 = none
  fields,                 \* the page's input fields: value and selection
  currentActiveInput,     \* context.js currentActiveInput: a field, 0 = null
  activeElement,          \* document.activeElement: a field, 0 = the body
  blurTimers,             \* fields whose 150 ms timer of handleInputBlur runs
  asked,                  \* the AI_REQUEST messages the content script sent
  popover,                \* the result popover: <<>> or <<AI_RESULT>>
  modal,                  \* the result modal: <<>> or <<AI_RESULT>>
  replaceCalls,           \* the number of replaceSelectedText calls made
  currentSettings,        \* popup.js currentSettings
  arrays,                 \* the language arrays of popup.js, by reference
  popupState              \* the popup: closed, loading, open

\* the state of the AI request pipeline
serviceVars ==
  << pool, limit, hasLanguageModel, aiServiceManager, isInitialized,
     apiAvailable, languageModel, initializationPromise, attempts, expired,
     createCalls, rq >>

\* the state of the context menus
menuVars ==
  << storage, userSettings, hasSelection, inv, browser, callbacks, menu,
     duplicates, batches, lastFinished >>

\* the state of the content script and its page
pageVars ==
  << fields, currentActiveInput, activeElement, blurTimers, asked, popover,
     modal, replaceCalls >>

\* the state of the popup
popupVars == << currentSettings, arrays, popupState >>

vars == << serviceVars, menuVars, pageVars, popupVars >>

Invocations == 1..NInv

IdleInvocation ==
  [ pc |-> "idle",        \* idle, loading, removing, creating, done
    trigger |-> "none",   \* onInstalled, onStartup, SELECTION_CHANGED
    loaded |-> <<>>,      \* what loadSettings of this invocation read: <<settings>>
    sel |-> FALSE ]       \* hasSelection when the removeAll callback ran

\* background.js as loaded: no settings read, no selection, no menu
NoMenus ==
  /\ userSettings = <<>>
  /\ hasSelection = FALSE
  /\ inv = [i \in Invocations |-> IdleInvocation]
  /\ browser = <<>>
  /\ callbacks = <<>>
  /\ menu = {}
  /\ duplicates = {}
  /\ batches = 0
  /\ lastFinished = 0

Reqs == 1..NReq

IdleRequest ==
  [ pc |-> "idle",          \* handleAIRequest: idle, waiting (on the race), done
    proc |-> "none",        \* processingPromise: none, init, prompt, settled
    msg |-> NoMessage,
    age |-> 0,              \* seconds handleAIRequest has been waiting
    outerLeft |-> 0,        \* seconds left on the timer of handleAIRequest
    initLeft |-> 0,         \* seconds left on the timer of initializeAI
    promptLeft |-> 0,       \* seconds left on the timer of the perform* function
    waitOn |-> 0,           \* the attempt initializeAI is racing against its timer
    promptOn |-> 0,         \* the session an unsettled session.prompt call runs on
    via |-> "none",         \* what initializeAPIs did for this request
    initCalls |-> 0,        \* initializeAI calls made for this request
    promptCalls |-> 0,      \* session.prompt calls made for this request
    prompt |-> <<>>,        \* the prompt passed to session.prompt
    source |-> "none",      \* who produced the delivered result: model, default,
                            \* performFallback, handlerFallback
    sent |-> <<>> ]         \* chrome.tabs.sendMessage calls to the request's tab

\* the input fields of the page: the one a request comes from, and another
Fields == {1, 2}

Asks == 1..NAsk

\* the text every field holds when the page is loaded, one character a token
InitialValue == <<"x", " ", "y">>

\* a request the content script has not sent
IdleAsk ==
  [ pc |-> "idle",        \* idle, sent, done
    origin |-> 0,         \* the field whose dropdown sent it, 0 = the context menu
    msg |-> <<>> ]        \* the AI_REQUEST message

\* context.js as loaded into a page nobody has touched
NoPage ==
  /\ fields = [f \in Fields |->
                 [value |-> InitialValue, selectionStart |-> 0, selectionEnd |-> 0]]
  /\ currentActiveInput = 0
  /\ activeElement = 0
  /\ blurTimers = {}
  /\ asked = [k \in Asks |-> IdleAsk]
  /\ popover = <<>>
  /\ modal = <<>>
  /\ replaceCalls = 0

\* popup.js DEFAULT_SETTINGS
DEFAULT_SETTINGS ==
  [ features |-> {"translate", "changeTone", "proofread", "rewrite", "summarize", "generate"},
    languages |-> <<"es", "fr", "de", "it", "pt", "ja", "ko", "zh">> ]

\* no popup is open: no script, no settings, no arrays
PopupClosed ==
  /\ popupState = "closed"
  /\ currentSettings = <<>>
  /\ arrays = <<>>

(***************************************************************************)
(* handleAIRequest and the perform* functions.                             *)
(***************************************************************************)
\* the catch block of a perform* function
performCatch(m) ==
  CASE m.action = "translate" -> getFallbackTranslation(m.text, m.targetLanguage, m.languageName)
    [] m.action = "changeTone" -> getFallbackToneChange(m.text, m.tone)
    [] m.action = "proofread" -> getFallbackProofreading(m.text)
    [] m.action = "rewrite" -> getFallbackRewriting(m.text)
    [] m.action = "summarize" -> getFallbackSummarization(m.text)
    [] m.action = "generate" -> getFallbackGeneration(m.text)
    [] OTHER -> <<>>

\* the catch block of handleAIRequest
handlerCatch(m) ==
  CASE m.action = "translate" -> getFallbackTranslation(m.text, m.targetLanguage, m.languageName)
    [] m.action = "changeTone" -> getFallbackToneChange(m.text, m.tone)
    [] m.action = "proofread" -> getFallbackProofreading(m.text)
    [] m.action = "rewrite" -> getFallbackRewriting(m.text)
    [] m.action = "summarize" -> getFallbackSummarization(m.text)
    [] m.action = "generate" -> getFallbackGeneration(m.text)
    [] OTHER -> <<"AI processing failed. ">> \o m.text

\* both catch blocks on every message the page side sends, evaluated once
PerformFallbacks == [m \in AllMessages |-> performCatch(m)]

HandlerFallbacks == [m \in AllMessages |-> handlerCatch(m)]

PerformFallback(m) ==
  IF m \in DOMAIN PerformFallbacks THEN PerformFallbacks[m] ELSE performCatch(m)

HandlerFallback(m) ==
  IF m \in DOMAIN HandlerFallbacks THEN HandlerFallbacks[m] ELSE handlerCatch(m)

\* an AI_RESULT that takes the end offset from the start offset
AIResult_WrongOffset(m, result) ==
  [ type |-> "AI_RESULT", action |-> m.action, originalText |-> m.text,
    result |-> result, isRightClick |-> m.isRightClick, position |-> m.position,
    isInputField |-> m.isInputField, isFullText |-> m.isFullText,
    textStart |-> m.textStart, textEnd |-> m.textStart,
    languageName |-> m.languageName, tone |-> m.tone, toneName |-> m.toneName ]

\* the message handleAIRequest passes to chrome.tabs.sendMessage
AIResult(m, result) ==
  [ type |-> "AI_RESULT", action |-> m.action, originalText |-> m.text,
    result |-> result, isRightClick |-> m.isRightClick, position |-> m.position,
    isInputField |-> m.isInputField, isFullText |-> m.isFullText,
    textStart |-> m.textStart, textEnd |-> m.textEnd,
    languageName |-> m.languageName, tone |-> m.tone, toneName |-> m.toneName ]

\* handleAIRequest after its try/catch: send the result to the tab
SendResult(q, result, source) ==
  [ q EXCEPT !.pc = "done", !.sent = Append(q.sent, AIResult(q.msg, result)),
             !.source = source, !.age = 0, !.outerLeft = 0 ]

\* a processingPromise whose value is sent even after the race is over
ProcessingSettles_SendsLate(q, result, source) ==
  SendResult([q EXCEPT !.proc = "settled", !.initLeft = 0, !.promptLeft = 0],
             result, source)

\* processingPromise settles with a value: the race of handleAIRequest
\* resumes with it unless its timer has already won
ProcessingSettles(q, result, source) ==
  LET p == [q EXCEPT !.proc = "settled", !.initLeft = 0, !.promptLeft = 0]
  IN  IF q.pc = "waiting" THEN SendResult(p, result, source) ELSE p

\* the tones performToneChange has a prompt for
KnownTones == {"professional", "casual", "straightforward", "confident", "friendly"}

\* tonePrompts[tone] || tonePrompts.professional: the tone whose prompt
\* performToneChange sends
tonePrompts(tone) == IF tone \in KnownTones THEN tone ELSE "professional"

\* the prompt a perform* function hands to useLanguageModel: the instruction,
\* its parameter and the text
Prompt(m) ==
  CASE m.action = "translate" -> <<"Translate the following text to", m.languageName, m.text>>
    [] m.action = "changeTone" -> <<"Rewrite the following text in tone", tonePrompts(m.tone), m.text>>
    [] m.action = "proofread" -> <<"Please proofread", "", m.text>>
    [] m.action = "rewrite" -> <<"Rewrite", "improve", m.text>>
    [] m.action = "summarize" -> <<"Provide a summary", "medium", m.text>>
    [] m.action = "generate" -> <<"", "", m.text>>
    [] OTHER -> <<>>

\* AIServiceManager.isServiceAvailable("languageModel")
isServiceAvailable(initialized, session) == initialized /\ session # 0

\* the rest of a perform* function once the model is taken to be ready:
\* useLanguageModel throws unless the service is available, else the
\* prompt is sent and raced against its timer
StartPrompt(q, initialized, session) ==
  IF isServiceAvailable(initialized, session)
    THEN [q EXCEPT !.proc = "prompt", !.promptOn = session, !.initLeft = 0,
                   !.promptLeft = PromptTimeout,
                   !.promptCalls = q.promptCalls + 1, !.prompt = Prompt(q.msg)]
    ELSE ProcessingSettles(q, PerformFallback(q.msg), "performFallback")

\* a perform* function resumes with the value of initializeAI
AfterInitializeAI(q, initialized, mgrInitialized, session) ==
  IF initialized
    THEN StartPrompt(q, mgrInitialized, session)
    ELSE ProcessingSettles(q, PerformFallback(q.msg), "performFallback")

\* the attempt a new _performInitialization run gets
NewAttempt == CHOOSE a \in Reqs : attempts[a] = "none" /\ \A b \in 1..(a - 1) : attempts[b] # "none"

\* initializeAPIs without the check of the in-flight promise
initializeAPIs_NoSingleFlight == NewAttempt

\* initializeAPIs: the attempt whose promise the caller gets
initializeAPIs ==
  IF initializationPromise # 0 THEN initializationPromise ELSE NewAttempt

\* what initializeAPIs did for the caller
InitializationRoute(a) ==
  IF initializationPromise = 0 \/ a # initializationPromise THEN "new"
  ELSE IF attempts[a] = "true" THEN "succeeded"
  ELSE IF attempts[a] = "false" THEN "failed"
  ELSE IF a \in expired THEN "expired"
  ELSE "inflight"

\* _performInitialization without the return on a failed capability probe
performInitialization_NoProbe == "availability"

\* _performInitialization up to its first await: where a new attempt stands
\* after checkAPIAvailability
performInitialization == IF hasLanguageModel THEN "availability" ELSE "false"

\* a listener that takes the next message only when the handleAIRequest
\* call before it has finished
onMessage_AwaitsHandler(r) ==
  /\ rq[r].pc = "idle"
  /\ r <= limit
  /\ r > 1 => rq[r - 1].pc = "done"

\* the onMessage listener takes the r-th AI_REQUEST: messages are taken in
\* the order they arrive, and the listener ends without awaiting the
\* handleAIRequest call it starts
onMessage(r) ==
  /\ rq[r].pc = "idle"
  /\ r <= limit
  /\ r > 1 => rq[r - 1].pc # "idle"

\* An AI_REQUEST message arrives: handleAIRequest runs up to its first await
\* that a macrotask has to end.
handleAIRequest(r, m) ==
  /\ onMessage(r)
  /\ LET q0 == [ rq[r] EXCEPT !.pc = "waiting", !.msg = m,
                              !.outerLeft = ProcessingTimeout ]
     IN  IF m.action \notin FallbackActions
           THEN /\ rq' = [rq EXCEPT ![r] =
                           ProcessingSettles(q0, <<"[PROCESSED] ">> \o m.text, "default")]
                /\ UNCHANGED << aiServiceManager, apiAvailable, initializationPromise,
                                attempts >>
         ELSE IF aiServiceManager /\ isInitialized
           THEN /\ rq' = [rq EXCEPT ![r] =
                           StartPrompt([q0 EXCEPT !.via = "ready"], isInitialized, languageModel)]
                /\ UNCHANGED << aiServiceManager, apiAvailable, initializationPromise,
                                attempts >>
         ELSE LET a == initializeAPIs
                  fresh == attempts[a] = "none"
                  state == IF fresh THEN performInitialization ELSE attempts[a]
                  q1 == [q0 EXCEPT !.via = InitializationRoute(a), !.waitOn = a,
                                   !.initCalls = q0.initCalls + 1]
              IN  /\ aiServiceManager' = TRUE
                  /\ initializationPromise' = a
                  /\ attempts' = [attempts EXCEPT ![a] = state]
                  /\ apiAvailable' = IF fresh THEN hasLanguageModel ELSE apiAvailable
                  /\ rq' = [rq EXCEPT ![r] =
                       IF state \in {"true", "false"}
                         THEN AfterInitializeAI(q1, state = "true", isInitialized, languageModel)
                         ELSE [q1 EXCEPT !.proc = "init",
                                         !.initLeft = InitializationTimeout]]
  /\ UNCHANGED << menuVars, pageVars, popupVars >>
  /\ UNCHANGED << pool, limit, hasLanguageModel, isInitialized, languageModel,
                  expired, createCalls >>

\* the requests whose initializeAI call is racing attempt a against its timer
Waiting(a) == {r \in Reqs : rq[r].proc = "init" /\ rq[r].waitOn = a}

\* LanguageModel.availability() settles, either way: _performInitialization
\* goes on to call LanguageModel.create
AvailabilitySettles(a) ==
  /\ attempts[a] = "availability"
  /\ attempts' = [attempts EXCEPT ![a] = "create"]
  /\ createCalls' = createCalls + 1
  /\ UNCHANGED << menuVars, pageVars, popupVars >>
  /\ UNCHANGED << pool, limit, hasLanguageModel, aiServiceManager, isInitialized,
                  apiAvailable, languageModel, initializationPromise, expired, rq >>

\* LanguageModel.create resolves: the session is stored, the promise of the
\* attempt resolves to true and the callers racing it resume
CreateResolves(a) ==
  /\ attempts[a] = "create"
  /\ attempts' = [attempts EXCEPT ![a] = "true"]
  /\ languageModel' = a
  /\ isInitialized' = TRUE
  /\ rq' = [r \in Reqs |->
              IF r \in Waiting(a) THEN AfterInitializeAI(rq[r], TRUE, TRUE, a) ELSE rq[r]]
  /\ UNCHANGED << menuVars, pageVars, popupVars >>
  /\ UNCHANGED << pool, limit, hasLanguageModel, aiServiceManager, apiAvailable,
                  initializationPromise, expired, createCalls >>

\* LanguageModel.create rejects: the promise of the attempt resolves to false
CreateRejects(a) ==
  /\ attempts[a] = "create"
  /\ attempts' = [attempts EXCEPT ![a] = "false"]
  /\ isInitialized' = FALSE
  /\ rq' = [r \in Reqs |->
              IF r \in Waiting(a)
                THEN AfterInitializeAI(rq[r], FALSE, FALSE, languageModel)
                ELSE rq[r]]
  /\ UNCHANGED << menuVars, pageVars, popupVars >>
  /\ UNCHANGED << pool, limit, hasLanguageModel, aiServiceManager, apiAvailable,
                  languageModel, initializationPromise, expired, createCalls >>

\* the 5 s timer of initializeAI fires first: initializeAI returns false
InitializationTimesOut(r) ==
  /\ rq[r].proc = "init"
  /\ rq[r].initLeft = 0
  /\ expired' = expired \cup {rq[r].waitOn}
  /\ rq' = [rq EXCEPT ![r] = AfterInitializeAI(rq[r], FALSE, isInitialized, languageModel)]
  /\ UNCHANGED << menuVars, pageVars, popupVars >>
  /\ UNCHANGED << pool, limit, hasLanguageModel, aiServiceManager, isInitialized,
                  apiAvailable, languageModel, initializationPromise, attempts,
                  createCalls >>

\* a perform* function that drops the model's answer and returns its fallback
PromptResolves_ReturnsFallback(r, answer) ==
  /\ rq[r].promptOn # 0
  /\ rq' = [rq EXCEPT ![r] =
              LET q == [rq[r] EXCEPT !.promptOn = 0]
              IN  IF q.proc = "prompt"
                    THEN ProcessingSettles(q, PerformFallback(q.msg), "performFallback")
                    ELSE q]
  /\ UNCHANGED << menuVars, pageVars, popupVars >>
  /\ UNCHANGED << pool, limit, hasLanguageModel, aiServiceManager, isInitialized,
                  apiAvailable, languageModel, initializationPromise, attempts, expired,
                  createCalls >>

\* session.prompt resolves with the model's answer
PromptResolves(r, answer) ==
  /\ rq[r].promptOn # 0
  /\ rq' = [rq EXCEPT ![r] =
              LET q == [rq[r] EXCEPT !.promptOn = 0]
              IN  IF q.proc = "prompt" THEN ProcessingSettles(q, answer, "model") ELSE q]
  /\ UNCHANGED << menuVars, pageVars, popupVars >>
  /\ UNCHANGED << pool, limit, hasLanguageModel, aiServiceManager, isInitialized,
                  apiAvailable, languageModel, initializationPromise, attempts, expired,
                  createCalls >>

\* a rejected prompt that makes the manager drop its session
PromptRejects_ResetsSession(r) ==
  /\ rq[r].promptOn # 0
  /\ isInitialized' = FALSE
  /\ languageModel' = 0
  /\ rq' = [rq EXCEPT ![r] =
              LET q == [rq[r] EXCEPT !.promptOn = 0]
              IN  IF q.proc = "prompt"
                    THEN ProcessingSettles(q, PerformFallback(q.msg), "performFallback")
                    ELSE q]
  /\ UNCHANGED << menuVars, pageVars, popupVars >>
  /\ UNCHANGED << pool, limit, hasLanguageModel, aiServiceManager, apiAvailable,
                  initializationPromise, attempts, expired, createCalls >>

\* session.prompt rejects
PromptRejects(r) ==
  /\ rq[r].promptOn # 0
  /\ rq' = [rq EXCEPT ![r] =
              LET q == [rq[r] EXCEPT !.promptOn = 0]
              IN  IF q.proc = "prompt"
                    THEN ProcessingSettles(q, PerformFallback(q.msg), "performFallback")
                    ELSE q]
  /\ UNCHANGED << menuVars, pageVars, popupVars >>
  /\ UNCHANGED << pool, limit, hasLanguageModel, aiServiceManager, isInitialized,
                  apiAvailable, languageModel, initializationPromise, attempts, expired,
                  createCalls >>

\* the 8 s timer of a perform* function fires first
PromptTimesOut(r) ==
  /\ rq[r].proc = "prompt"
  /\ rq[r].promptLeft = 0
  /\ rq' = [rq EXCEPT ![r] = ProcessingSettles(rq[r], PerformFallback(rq[r].msg), "performFallback")]
  /\ UNCHANGED << menuVars, pageVars, popupVars >>
  /\ UNCHANGED << pool, limit, hasLanguageModel, aiServiceManager, isInitialized,
                  apiAvailable, languageModel, initializationPromise, attempts, expired,
                  createCalls >>

\* no timer guards the race of handleAIRequest
ProcessingTimerDue_Never(q) == FALSE

\* the 10 s timer of handleAIRequest has run out with the race still open
ProcessingTimerDue(q) == q.pc = "waiting" /\ q.outerLeft = 0

\* the 10 s timer of handleAIRequest fires first
ProcessingTimesOut(r) ==
  /\ ProcessingTimerDue(rq[r])
  /\ rq' = [rq EXCEPT ![r] = SendResult(rq[r], HandlerFallback(rq[r].msg), "handlerFallback")]
  /\ UNCHANGED << menuVars, pageVars, popupVars >>
  /\ UNCHANGED << pool, limit, hasLanguageModel, aiServiceManager, isInitialized,
                  apiAvailable, languageModel, initializationPromise, attempts, expired,
                  createCalls >>

\* a timer that is due fires before the clock moves on
TimerDue ==
  \E r \in Reqs :
    \/ ProcessingTimerDue(rq[r])
    \/ rq[r].proc = "init" /\ rq[r].initLeft = 0
    \/ rq[r].proc = "prompt" /\ rq[r].promptLeft = 0

\* some timer is running
TimerRunning == \E r \in Reqs : rq[r].pc = "waiting" \/ rq[r].proc \in {"init", "prompt"}

\* a second passes
Elapse(q) ==
  [ q EXCEPT !.age = IF q.pc = "waiting" THEN q.age + 1 ELSE q.age,
             !.outerLeft = IF q.pc = "waiting" THEN q.outerLeft - 1 ELSE q.outerLeft,
             !.initLeft = IF q.proc = "init" THEN q.initLeft - 1 ELSE q.initLeft,
             !.promptLeft = IF q.proc = "prompt" THEN q.promptLeft - 1 ELSE q.promptLeft ]

Tick ==
  /\ TimerRunning
  /\ ~TimerDue
  /\ rq' = [r \in Reqs |-> Elapse(rq[r])]
  /\ UNCHANGED << menuVars, pageVars, popupVars >>
  /\ UNCHANGED << pool, limit, hasLanguageModel, aiServiceManager, isInitialized,
                  apiAvailable, languageModel, initializationPromise, attempts, expired,
                  createCalls >>

\* every script as loaded, before anything has happened
InitScripts ==
  /\ NoMenus
  /\ NoPage
  /\ PopupClosed
  /\ hasLanguageModel \in BOOLEAN
  /\ aiServiceManager = FALSE
  /\ isInitialized = FALSE
  /\ apiAvailable = FALSE
  /\ languageModel = 0
  /\ initializationPromise = 0
  /\ attempts = [a \in Reqs |-> "none"]
  /\ expired = {}
  /\ createCalls = 0
  /\ rq = [r \in Reqs |-> IdleRequest]

\* nothing has been stored yet
InitCommon == InitScripts /\ storage = <<>>

\* NReq requests that overlap in time
Init == InitCommon /\ pool = CoreMessages /\ limit = NReq

\* one request, of every kind
InitOne == InitCommon /\ pool = AllMessages /\ limit = 1

Next ==
  \/ \E r \in Reqs : \E m \in pool : handleAIRequest(r, m)
  \/ \E a \in Reqs : AvailabilitySettles(a)
  \/ \E a \in Reqs : CreateResolves(a)
  \/ \E a \in Reqs : CreateRejects(a)
  \/ \E r \in Reqs : InitializationTimesOut(r)
  \/ \E r \in Reqs : \E answer \in Answers : PromptResolves(r, answer)
  \/ \E r \in Reqs : PromptRejects(r)
  \/ \E r \in Reqs : PromptTimesOut(r)
  \/ \E r \in Reqs : ProcessingTimesOut(r)
  \/ Tick

Spec == Init /\ [][Next]_vars

SpecOne == InitOne /\ [][Next]_vars

\* one request with a generated text, answered by its fallback transformer
\* because the backend is absent
InitTexts ==
  /\ InitCommon
  /\ ~hasLanguageModel
  /\ \E m \in TextMessages : pool = {m}
  /\ limit = 1

NextTexts == \E r \in Reqs : \E m \in pool : handleAIRequest(r, m)

SpecTexts == InitTexts /\ [][NextTexts]_vars

\* a step of the clock: a second passes, or a timer that is due fires
TimeStep ==
  \/ Tick
  \/ \E r \in Reqs : InitializationTimesOut(r)
  \/ \E r \in Reqs : PromptTimesOut(r)
  \/ \E r \in Reqs : ProcessingTimesOut(r)

\* the event loop keeps running: the clock advances and a timer that is due
\* fires; nothing makes LanguageModel.create or session.prompt settle
FairSpec == Spec /\ WF_vars(TimeStep)

(***************************************************************************)
(* Properties.                                                             *)
(***************************************************************************)
\* the fallback transformers produced the delivered result
UsedFallback(q) == q.source \in {"performFallback", "handlerFallback"}

\* C1: a request for one of the six actions is answered by exactly one
\* message to its tab, an AI_RESULT and never an AI_ERROR, whatever the
\* model does; nothing is sent before the answer and nothing after it.
C1_OneResult ==
  \A r \in Reqs :
    rq[r].msg.action \in FallbackActions =>
      /\ \A k \in 1..Len(rq[r].sent) : rq[r].sent[k].type = "AI_RESULT"
      /\ rq[r].pc = "waiting" => Len(rq[r].sent) = 0
      /\ rq[r].pc = "done" => Len(rq[r].sent) = 1

\* the timer of handleAIRequest won, and the abandoned processing settled later
C1_Witness ==
  \E r \in Reqs :
    /\ rq[r].msg.action \in FallbackActions
    /\ rq[r].pc = "done" /\ rq[r].source = "handlerFallback"
    /\ rq[r].proc = "settled" /\ rq[r].promptOn = 0
    /\ Len(rq[r].sent) = 1

\* C2: every handleAIRequest call reaches the sending of its AI_RESULT, also
\* when LanguageModel.create or session.prompt never settles, and it has
\* waited no longer than the 10 s ceiling by then (so no longer than the
\* ceiling plus a retry delay).  A call goes from idle to waiting to done and
\* never back, so every waiting call gets done exactly if, again and again,
\* no call is waiting.
C2_Completes ==
  /\ []<>(\A r \in Reqs : rq[r].pc # "waiting")
  /\ [](\A r \in Reqs : rq[r].pc = "waiting" => rq[r].age <= ProcessingTimeout)

\* a request answered by the timer of handleAIRequest while its prompt is
\* still unsettled
C2_Witness ==
  \E r \in Reqs :
    /\ rq[r].pc = "done" /\ rq[r].source = "handlerFallback"
    /\ rq[r].promptOn # 0

\* C3 (as claimed): the result delivered for a non-empty text is non-empty.
C3_ResultNonEmpty ==
  \A r \in Reqs : \A k \in 1..Len(rq[r].sent) :
    rq[r].sent[k].originalText # <<>> => rq[r].sent[k].result # <<>>

\* the _performInitialization runs that have not settled
InFlight == {a \in Reqs : attempts[a] \in {"availability", "create"}}

\* C4: requests that call initializeAPIs before the first initialization
\* has resolved all wait on that one attempt: at most one attempt is in
\* flight, every waiting caller waits on it, LanguageModel.create has been
\* called once at most, and a caller that went on to prompt the model did so
\* because that attempt resolved to true.
C4_SingleFlight ==
  /\ Cardinality(InFlight) <= 1
  /\ \A r \in Reqs : rq[r].proc = "init" => rq[r].waitOn \in InFlight
  /\ InFlight # {} => createCalls <= 1
  /\ \A r \in Reqs :
       (rq[r].via \in {"new", "inflight"} /\ rq[r].proc = "prompt") =>
         (attempts[rq[r].waitOn] = "true" /\ rq[r].promptOn = rq[r].waitOn)

\* two requests wait on the same attempt, whose LanguageModel.create call is out
C4_Witness ==
  \E r1, r2 \in Reqs :
    /\ r1 # r2
    /\ rq[r1].proc = "init" /\ rq[r2].proc = "init"
    /\ rq[r1].via = "new" /\ rq[r2].via = "inflight"
    /\ rq[r1].waitOn = rq[r2].waitOn
    /\ attempts[rq[r1].waitOn] = "create"
    /\ createCalls = 1

\* C5 (as claimed): after a failed initialization the in-flight marker is
\* cleared, so no request is handed the outcome of an attempt that had
\* already failed when it called initializeAPIs.
C5_RetryAfterFailure ==
  /\ initializationPromise # 0 => attempts[initializationPromise] # "false"
  /\ \A r \in Reqs : rq[r].via # "failed"

\* C6 (as claimed): an initialization that exceeded the 5 s ceiling counts
\* as failed: no request that arrives after the timeout waits on the attempt
\* that timed out.
C6_TimedOutIsFailed ==
  \A r \in Reqs : rq[r].via # "expired"

\* C7 (as claimed): a translate request answered by the fallback gets its
\* own text back.
C7_TranslateIdentity ==
  \A r \in Reqs : \A k \in 1..Len(rq[r].sent) :
    (rq[r].msg.action = "translate" /\ UsedFallback(rq[r])) =>
      rq[r].sent[k].result = rq[r].sent[k].originalText

\* C8 (as claimed): every result message carries a usedFallback flag, true
\* exactly when a fallback transformer produced the text.
C8_UsedFallbackFlag ==
  \A r \in Reqs : \A k \in 1..Len(rq[r].sent) :
    /\ "usedFallback" \in DOMAIN rq[r].sent[k]
    /\ rq[r].sent[k].usedFallback = UsedFallback(rq[r])

\* C9 (as claimed): the late completion of an operation that lost its
\* timeout race is discarded: no second message is sent for the request and
\* the session of an attempt that timed out is never installed.
C9_LateCompletionDiscarded ==
  /\ \A r \in Reqs : Len(rq[r].sent) <= 1
  /\ languageModel \notin expired

\* C10: the AI_RESULT of a request copies the request's action, text (as
\* originalText), isRightClick, position, isInputField, isFullText,
\* textStart, textEnd, languageName, tone and toneName unchanged, whichever
\* path produced the result.
C10_FieldsCopied ==
  \A r \in Reqs : \A k \in 1..Len(rq[r].sent) :
    LET s == rq[r].sent[k]
        m == rq[r].msg
    IN  /\ s.action = m.action
        /\ s.originalText = m.text
        /\ s.isRightClick = m.isRightClick
        /\ s.position = m.position
        /\ s.isInputField = m.isInputField
        /\ s.isFullText = m.isFullText
        /\ s.textStart = m.textStart
        /\ s.textEnd = m.textEnd
        /\ s.languageName = m.languageName
        /\ s.tone = m.tone
        /\ s.toneName = m.toneName

\* a tone change of a selection inside a field, answered by the fallback
C10_Witness ==
  \E r \in Reqs :
    /\ rq[r].pc = "done" /\ UsedFallback(rq[r])
    /\ rq[r].msg.action = "changeTone" /\ rq[r].msg.tone = "confident"
    /\ rq[r].msg.textStart # rq[r].msg.textEnd
    /\ Len(rq[r].sent) = 1


\* C11 (as claimed): with the backend present, a request whose initialization
\* failed calls initializeAI exactly once more before the fallback is
\* applied: a fallback result that no prompt preceded follows two
\* initializeAI calls, never one.
C11_OneRetry ==
  \A r \in Reqs :
    (hasLanguageModel /\ rq[r].source = "performFallback" /\ rq[r].promptCalls = 0)
      => rq[r].initCalls = 2


\* C12: when the LanguageModel global is absent, no LanguageModel.create call
\* and no session.prompt call is made, initializeAI is called once at most
\* (no retry), the request is answered in the task that received it, and its
\* one AI_RESULT carries exactly the output of the action's fallback
\* transformer on the request text.
C12_AbsentBackend ==
  ~hasLanguageModel =>
    /\ createCalls = 0
    /\ \A a \in Reqs : attempts[a] \in {"none", "false"}
    /\ \A r \in Reqs :
         /\ rq[r].promptCalls = 0 /\ rq[r].promptOn = 0
         /\ rq[r].initCalls <= 1
         /\ rq[r].pc # "waiting"
         /\ (rq[r].pc = "done" /\ rq[r].msg.action \in FallbackActions) =>
              /\ rq[r].source = "performFallback"
              /\ rq[r].sent = <<AIResult(rq[r].msg, performCatch(rq[r].msg))>>

\* a rewrite request answered without the backend, the fallback having
\* changed the text
C12_Witness ==
  \E r \in Reqs :
    /\ ~hasLanguageModel
    /\ rq[r].pc = "done" /\ rq[r].msg.action = "rewrite"
    /\ rq[r].initCalls = 1
    /\ rq[r].sent[1].result = getFallbackRewriting(rq[r].msg.text)
    /\ rq[r].sent[1].result # rq[r].msg.text


\* the manager holds a session that is ready for prompts
SessionReady == isInitialized /\ languageModel # 0

\* C13: once a session is ready no step resets it, a failing or timed-out
\* prompt included: isInitialized stays true and services.languageModel stays
\* the same session; every prompt in progress runs on that session, and a
\* request that arrives while the session is ready sends its prompt to it
\* without initializing again.
C13_SessionSurvives ==
  /\ [][SessionReady => (isInitialized' /\ languageModel' = languageModel)]_vars
  /\ [](\A r \in Reqs : rq[r].proc = "prompt" =>
          (SessionReady /\ rq[r].promptOn = languageModel))
  /\ [][\A r \in Reqs :
          (SessionReady /\ rq[r].pc = "idle" /\ rq'[r].pc # "idle"
             /\ rq'[r].msg.action \in FallbackActions)
          => (rq'[r].proc = "prompt" /\ rq'[r].promptOn = languageModel
                /\ rq'[r].initCalls = 0)]_vars

\* the prompt of one request failed or timed out, and a later request is
\* prompting the same session
C13_Witness ==
  \E r1, r2 \in Reqs :
    /\ rq[r1].pc = "done" /\ rq[r1].source = "performFallback"
    /\ rq[r1].promptCalls = 1
    /\ rq[r2].via = "ready" /\ rq[r2].proc = "prompt"
    /\ rq[r2].promptOn = languageModel /\ SessionReady


\* the attempts whose LanguageModel.create call resolved
Created == {a \in Reqs : attempts[a] = "true"}

\* C14: at most one model session is ever live: LanguageModel.create
\* succeeds once at most, the session the manager holds is the one that call
\* created, and once held it is never replaced.
C14_OneSession ==
  /\ [](Cardinality(Created) <= 1)
  /\ [](languageModel # 0 => Created = {languageModel})
  /\ [][languageModel # 0 => languageModel' = languageModel]_vars

\* the session is held while both requests have been served by the manager,
\* one of them after the session was created
C14_Witness ==
  \E r1, r2 \in Reqs :
    /\ languageModel # 0 /\ createCalls = 1
    /\ rq[r1].via = "new" /\ rq[r1].promptCalls = 1
    /\ rq[r2].via \in {"ready", "succeeded", "inflight"} /\ rq[r2].promptCalls = 1


\* C15: requests do not serialize each other.  Whatever the requests before
\* it are doing, the next request to arrive is accepted; and a request that
\* is suspended on session creation or on a prompt can take its next step,
\* a prompt's answer completing it at once, whatever state the other
\* requests are in.
C15_Independent ==
  \A r \in Reqs :
    /\ (rq[r].pc = "idle" /\ r <= limit /\ \A k \in 1..(r - 1) : rq[k].pc # "idle")
         => ENABLED (\E m \in pool : handleAIRequest(r, m))
    /\ (rq[r].pc = "waiting" /\ rq[r].proc = "prompt")
         => ENABLED (\E answer \in Answers :
                       PromptResolves(r, answer) /\ rq'[r].pc = "done")
    /\ (rq[r].pc = "waiting" /\ rq[r].proc = "init")
         => ENABLED (AvailabilitySettles(rq[r].waitOn) \/ CreateResolves(rq[r].waitOn))

\* the second request has been answered while the first, which arrived
\* before it, is still suspended on its prompt
C15_Witness ==
  \E r1, r2 \in Reqs :
    /\ r1 < r2
    /\ rq[r1].pc = "waiting" /\ rq[r1].proc = "prompt"
    /\ rq[r2].pc = "done" /\ rq[r2].source = "model"


\* C16 (as claimed): a changeTone request whose tone is missing or not
\* recognized completes with one AI_RESULT, and the default tone that takes
\* its place is the same on both paths: the prompt names the default tone
\* and a fallback result is the fallback transformation for that tone.
C16_SameDefaultTone ==
  \A r \in Reqs :
    (rq[r].msg.action = "changeTone" /\ rq[r].msg.tone \notin KnownTones
       /\ rq[r].pc = "done") =>
      /\ Len(rq[r].sent) = 1 /\ rq[r].sent[1].type = "AI_RESULT"
      /\ rq[r].promptCalls = 1 => rq[r].prompt[2] = tonePrompts(rq[r].msg.tone)
      /\ UsedFallback(rq[r]) =>
           rq[r].sent[1].result =
             getFallbackToneChange(rq[r].msg.text, tonePrompts(rq[r].msg.tone))


\* the delivered result of a request
Result(q) == q.sent[1].result

\* some rule of the table matches somewhere in the text
Applicable(text, rules) ==
  \E i \in 1..Len(rules) : \E k \in 1..Len(text) :
    MatchesAtCI(SubSeq(text, k, Len(text)), rules[i][1])

\* C17: the proofread and rewrite fallbacks are idempotent: applying the
\* fallback to its own output gives that output again, and no rule of the
\* table matches anywhere in the output, so that no replacement is rewritten
\* by another rule.
C17_Idempotent ==
  \A r \in Reqs :
    rq[r].pc = "done" =>
      /\ rq[r].msg.action = "proofread" =>
           /\ getFallbackProofreading(Result(rq[r])) = Result(rq[r])
           /\ ~Applicable(Result(rq[r]), corrections)
      /\ rq[r].msg.action = "rewrite" =>
           /\ getFallbackRewriting(Result(rq[r])) = Result(rq[r])
           /\ ~Applicable(Result(rq[r]), improvements)

\* a text of full length that holds the same misspelling twice has been
\* proofread
C17_Witness ==
  \E r \in Reqs :
    /\ rq[r].pc = "done" /\ rq[r].msg.action = "proofread"
    /\ Len(rq[r].msg.text) = MaxTokens
    /\ Cardinality({k \in 1..MaxTokens : rq[r].msg.text[k] = "Teh"}) >= 2
    /\ Result(rq[r]) # rq[r].msg.text


\* the text is five one-word sentences, each ended by a period, with one
\* space between a period and the next sentence
FiveSentences(text) ==
  /\ Len(text) = 14
  /\ \A k \in 1..5 : text[3 * k - 2] \notin NonWordTokens /\ text[3 * k - 1] = "."
  /\ \A k \in 1..4 : text[3 * k] = " "

\* C18 (as claimed): the summarize fallback returns the text unchanged when
\* it has at most two sentences, and for five sentences S1..S5 separated by
\* a period and one space it returns exactly "S1. S3. S5.".
C18_SummaryOfFive ==
  \A r \in Reqs :
    (rq[r].msg.action = "summarize" /\ rq[r].pc = "done" /\ UsedFallback(rq[r])) =>
      LET text == rq[r].msg.text
      IN  /\ Len(NonEmptySentences(SplitSentences(text, <<>>))) <= 2
               => Result(rq[r]) = text
          /\ FiveSentences(text)
               => Result(rq[r]) =
                    <<text[1], ".", " ", text[7], ".", " ", text[13], ".">>


\* what the dictionary makes of one token: the correction of a misspelling
\* in any letter case, I for a standalone i, the token itself otherwise
CorrectionOf(tok) ==
  LET hits == {i \in 1..Len(corrections) : corrections[i][1] = <<ToLowerCase(tok)>>}
  IN  IF hits # {} THEN corrections[CHOOSE i \in hits : TRUE][2]
      ELSE IF tok = "i" THEN <<"I">>
      ELSE <<tok>>

\* token by token: each token corrected, its first letter capitalized when
\* the token before it ends a sentence
RECURSIVE ProofreadTokens(_, _)
ProofreadTokens(toks, afterPunct) ==
  IF toks = <<>> THEN <<>>
  ELSE LET w == CorrectionOf(Head(toks))
           first == IF afterPunct THEN ToUpperFirst(w[1]) ELSE w[1]
       IN  <<first>> \o Tail(w)
             \o ProofreadTokens(Tail(toks), Head(toks) \in SentenceEnd)

\* the text without its white space
NoSpace(text) == SelectSeq(text, LAMBDA t : t \notin Whitespace)

\* C19: the proofread fallback replaces every whole-word occurrence of a
\* dictionary misspelling, in any letter case, by its correction, writes a
\* standalone i as I, capitalizes the first letter after sentence-ending
\* punctuation and leaves every other word and punctuation mark as it is;
\* "I recieve teh package" becomes "I receive the package".
C19_Proofread ==
  \A r \in Reqs :
    (rq[r].pc = "done" /\ rq[r].msg.action = "proofread") =>
      /\ NoSpace(Result(rq[r])) = ProofreadTokens(NoSpace(rq[r].msg.text), FALSE)
      /\ rq[r].msg.text = ProofreadExample =>
           Result(rq[r]) = <<"I", " ", "receive", " ", "the", " ", "package">>

\* "i. thier" has been proofread to "I. Their"
C19_Witness ==
  \E r \in Reqs :
    /\ rq[r].pc = "done" /\ rq[r].msg.action = "proofread"
    /\ rq[r].msg.text = <<"i", ".", " ", "thier">>
    /\ Result(rq[r]) = <<"I", ".", " ", "Their">>


\* one pass from the left: where a contraction or filler of the table
\* starts, its long form is written in its place; every other token is copied
RECURSIVE RewriteScan(_)
RewriteScan(text) ==
  IF text = <<>> THEN <<>>
  ELSE LET hits == {i \in 1..Len(improvements) : MatchesAtCI(text, improvements[i][1])}
       IN  IF hits # {}
             THEN LET i == CHOOSE j \in hits : TRUE
                  IN  improvements[i][2]
                        \o RewriteScan(SubSeq(text, Len(improvements[i][1]) + 1, Len(text)))
             ELSE <<Head(text)>> \o RewriteScan(Tail(text))

\* C20: the rewrite fallback writes the long form of each contraction and
\* the replacement of each filler of its table in their place and leaves
\* every token outside the table as it is ("it's" is kept); "I can't do this,
\* it's gonna be hard" becomes "I cannot do this, it's going to be hard".
C20_Rewrite ==
  \A r \in Reqs :
    (rq[r].pc = "done" /\ rq[r].msg.action = "rewrite") =>
      /\ Result(rq[r]) = RewriteScan(rq[r].msg.text)
      /\ ~Applicable(rq[r].msg.text, improvements) => Result(rq[r]) = rq[r].msg.text
      /\ rq[r].msg.text = RewriteExample =>
           Result(rq[r]) =
             << "I", " ", "cannot", " ", "do", " ", "this", ",", " ", "it", "'", "s",
                " ", "going", " ", "to", " ", "be", " ", "hard" >>

\* the example of the claim has been rewritten, "it's" kept
C20_Witness ==
  \E r \in Reqs :
    /\ rq[r].pc = "done" /\ rq[r].msg.action = "rewrite"
    /\ rq[r].msg.text = RewriteExample
    /\ Len(Result(rq[r])) = Len(RewriteExample)
    /\ SubSeq(Result(rq[r]), 10, 12) = <<"it", "'", "s">>
    /\ Result(rq[r])[3] = "cannot"


\* C21 (as claimed): for the friendly tone the fallback result ends with the
\* emoji whenever the text did not already end with it, whatever the text
\* ends with.
C21_FriendlyEmoji ==
  \A r \in Reqs :
    (rq[r].pc = "done" /\ rq[r].msg.action = "changeTone"
       /\ rq[r].msg.tone = "friendly" /\ UsedFallback(rq[r])
       /\ (rq[r].msg.text = <<>> \/ rq[r].msg.text[Len(rq[r].msg.text)] # Smile)) =>
      /\ Result(rq[r]) # <<>>
      /\ Result(rq[r])[Len(Result(rq[r]))] = Smile


\* the tokens of the generation templates that tell the user to enable the
\* on-device AI
BackendNotes ==
  { ":\n\n1. First consideration\n2. Important aspect to remember\n3. Next steps to take\n4. Final recommendations\n\nNote: AI generation is currently unavailable. Enable Chrome Built-in AI in chrome://flags for better results.",
    ":\n\nThis topic involves several key components that are worth considering. The main aspects include the fundamental principles, practical applications, and potential outcomes.\n\nFor more detailed AI-generated content, please enable Chrome Built-in AI in chrome://flags.",
    "\":\n\nThis is a basic template response. The topic you've mentioned is interesting and could be expanded upon in several ways. Consider the key aspects, potential applications, and relevant details.\n\nFor advanced AI generation, please enable Chrome Built-in AI in chrome://flags (search for \"Prompt API for Gemini Nano\")." }

\* C22 (as claimed): whichever template getFallbackGeneration selects, the
\* text it returns contains a note that full generation needs the on-device
\* AI backend.
C22_GenerationNote ==
  \A r \in Reqs :
    (rq[r].pc = "done" /\ rq[r].msg.action = "generate" /\ UsedFallback(rq[r])) =>
      \E k \in 1..Len(Result(rq[r])) : Result(rq[r])[k] \in BackendNotes


\* C23 (as claimed): the service manager is started with the extension, so
\* when the first AI_REQUEST begins to be handled the manager exists and an
\* initialization attempt has already been made.  (The onInstalled and
\* onStartup listeners only call createContextMenus, so the state they leave
\* the manager in is the one of Init.)
C23_StartedWithExtension ==
  [][ \A r \in Reqs :
        (rq[r].pc = "idle" /\ rq'[r].pc # "idle") =>
          (aiServiceManager /\ \E a \in Reqs : attempts[a] # "none") ]_vars


\* the AI_RESULT of request q carries answer as the model gave it
Delivered(q, answer) ==
  /\ q.pc = "done" /\ Len(q.sent) = 1
  /\ Result(q) = answer /\ q.source = "model"

\* C24 (as claimed): when initialization has succeeded within its 5 s ceiling
\* and session.prompt then resolves before the 8 s timer of the perform*
\* function fires, the request's AI_RESULT carries the model's answer and not
\* a fallback output.
C24_AnswerInCeilings ==
  [][ \A r \in Reqs : \A answer \in Answers :
        (PromptResolves(r, answer) /\ rq[r].proc = "prompt") =>
          Delivered(rq'[r], answer) ]_vars

\* C24 (amended): the same, provided the 10 s timer of handleAIRequest has
\* not fired when session.prompt resolves.
C24_AnswerBeforeProcessingTimeout ==
  [][ \A r \in Reqs : \A answer \in Answers :
        (PromptResolves(r, answer) /\ rq[r].proc = "prompt" /\ rq[r].pc = "waiting") =>
          Delivered(rq'[r], answer) ]_vars

\* a request that had to initialize the session got the model's answer after
\* waiting on both
C24_Witness ==
  \E r \in Reqs :
    /\ Delivered(rq[r], Result(rq[r])) /\ Result(rq[r]) \in Answers
    /\ rq[r].via = "new" /\ rq[r].initCalls = 1 /\ rq[r].promptCalls = 1


(***************************************************************************)
(* The context menus of background.js.  The calls to chrome.contextMenus   *)
(* are processed by the browser in the order they are made, and so are the *)
(* callbacks it answers with.                                              *)
(***************************************************************************)
\* the settings loadSettings uses when nothing is stored
DefaultUserSettings ==
  [ features |-> {"translate", "changeTone", "proofread", "rewrite", "summarize", "generate"},
    languages |-> <<"es", "fr", "de", "it", "pt", "ja", "ko", "zh">> ]

\* settings the popup stores
SavedSettings ==
  { [ features |-> {"proofread", "changeTone"}, languages |-> <<"es">> ],
    [ features |-> {"translate", "summarize"}, languages |-> <<"fr", "de">> ] }

\* the features createContextMenus makes an entry for
MenuFeatures == {"translate", "proofread", "rewrite", "summarize"}

\* the id of the entry of a feature
FeatureEntry(f) ==
  CASE f = "translate" -> <<"ai-translate-parent">>
    [] f = "proofread" -> <<"ai-proofread">>
    [] f = "rewrite" -> <<"ai-rewrite">>
    [] f = "summarize" -> <<"ai-summarize">>

\* userSettings?.features?.[f]
FeatureOn(settings, f) == settings # <<>> /\ f \in settings[1].features

\* the ids the removeAll callback passes to chrome.contextMenus.create, in
\* the order of its calls
MenuItems(settings) ==
  <<  <<"ai-input-analyzer">>  >>
  \o (IF FeatureOn(settings, "translate")
        THEN << FeatureEntry("translate") >>
             \o [k \in 1..Len(settings[1].languages) |->
                   <<"ai-translate-", settings[1].languages[k]>>]
        ELSE <<>>)
  \o (IF FeatureOn(settings, "proofread") THEN << FeatureEntry("proofread") >> ELSE <<>>)
  \o (IF FeatureOn(settings, "rewrite") THEN << FeatureEntry("rewrite") >> ELSE <<>>)
  \o (IF FeatureOn(settings, "summarize") THEN << FeatureEntry("summarize") >> ELSE <<>>)
  \o <<  <<"separator">>, <<"ai-settings">>  >>

\* the ids among the first n of a batch that are created although an item
\* with the id exists: in the menu before the batch, or earlier in the batch
DuplicateIds(ids, existing) ==
  { ids[k] : k \in { j \in 1..Len(ids) :
                       ids[j] \in existing \/ \E h \in 1..(j - 1) : ids[h] = ids[j] } }

\* the invocation a call of createContextMenus becomes
NextInvocation(i) ==
  /\ inv[i].pc = "idle"
  /\ \A j \in 1..(i - 1) : inv[j].pc # "idle"

\* createContextMenus up to its await: loadSettings has called
\* chrome.storage.sync.get
createContextMenus(i, trigger) ==
  inv' = [inv EXCEPT ![i] = [@ EXCEPT !.pc = "loading", !.trigger = trigger]]

\* chrome.runtime.onInstalled fires
onInstalled(i) ==
  /\ NextInvocation(i)
  /\ \A j \in Invocations : inv[j].trigger # "onInstalled"
  /\ createContextMenus(i, "onInstalled")
  /\ UNCHANGED << storage, userSettings, hasSelection, browser, callbacks, menu,
                  duplicates, batches, lastFinished >>
  /\ UNCHANGED << serviceVars, pageVars, popupVars >>

\* chrome.runtime.onStartup fires
onStartup(i) ==
  /\ NextInvocation(i)
  /\ \A j \in Invocations : inv[j].trigger # "onStartup"
  /\ createContextMenus(i, "onStartup")
  /\ UNCHANGED << storage, userSettings, hasSelection, browser, callbacks, menu,
                  duplicates, batches, lastFinished >>
  /\ UNCHANGED << serviceVars, pageVars, popupVars >>

\* the onMessage listener takes a SELECTION_CHANGED message
SelectionChanged(i, selected) ==
  /\ NextInvocation(i)
  /\ hasSelection' = selected
  /\ createContextMenus(i, "SELECTION_CHANGED")
  /\ UNCHANGED << storage, userSettings, browser, callbacks, menu, duplicates,
                  batches, lastFinished >>
  /\ UNCHANGED << serviceVars, pageVars, popupVars >>

\* the popup stores settings: saveSettings calls chrome.storage.sync.set
saveSettings(settings) ==
  /\ storage # <<settings>>
  /\ storage' = <<settings>>
  /\ UNCHANGED << userSettings, hasSelection, inv, browser, callbacks, menu,
                  duplicates, batches, lastFinished >>
  /\ UNCHANGED << serviceVars, pageVars, popupVars >>

\* the reads of the storage are answered in the order they were made
OldestLoading(i) ==
  /\ inv[i].pc = "loading"
  /\ \A j \in 1..(i - 1) : inv[j].pc # "loading"

\* chrome.storage.sync.get resolves: loadSettings assigns userSettings, and
\* createContextMenus goes on to call chrome.contextMenus.removeAll
loadSettings(i) ==
  /\ OldestLoading(i)
  /\ userSettings' = IF storage # <<>> THEN storage ELSE <<DefaultUserSettings>>
  /\ inv' = [inv EXCEPT ![i] = [@ EXCEPT !.pc = "removing", !.loaded = userSettings']]
  /\ browser' = Append(browser, [call |-> "removeAll", by |-> i, ids |-> <<>>])
  /\ UNCHANGED << storage, hasSelection, callbacks, menu, duplicates, batches,
                  lastFinished >>
  /\ UNCHANGED << serviceVars, pageVars, popupVars >>

\* chrome.storage.sync.get rejects: the catch block of loadSettings leaves
\* userSettings as it was
loadSettingsFails(i) ==
  /\ OldestLoading(i)
  /\ inv' = [inv EXCEPT ![i] = [@ EXCEPT !.pc = "removing"]]
  /\ browser' = Append(browser, [call |-> "removeAll", by |-> i, ids |-> <<>>])
  /\ UNCHANGED << storage, userSettings, hasSelection, callbacks, menu, duplicates,
                  batches, lastFinished >>
  /\ UNCHANGED << serviceVars, pageVars, popupVars >>

\* the browser processes a removeAll call: every item is removed and the
\* callback is posted
removeAll ==
  /\ browser # <<>>
  /\ Head(browser).call = "removeAll"
  /\ browser' = Tail(browser)
  /\ menu' = {}
  /\ batches' = 0
  /\ callbacks' = Append(callbacks, Head(browser).by)
  /\ UNCHANGED << storage, userSettings, hasSelection, inv, duplicates, lastFinished >>
  /\ UNCHANGED << serviceVars, pageVars, popupVars >>

\* the callback of removeAll runs: nothing without a selection, else one
\* create call per item, for the settings userSettings holds now
removeAllCallback ==
  /\ callbacks # <<>>
  /\ LET i == Head(callbacks)
     IN  IF ~hasSelection
           THEN /\ inv' = [inv EXCEPT ![i] = [@ EXCEPT !.pc = "done", !.sel = FALSE]]
                /\ lastFinished' = i
                /\ UNCHANGED browser
           ELSE /\ inv' = [inv EXCEPT ![i] = [@ EXCEPT !.pc = "creating", !.sel = TRUE]]
                /\ browser' = Append(browser, [call |-> "create", by |-> i,
                                               ids |-> MenuItems(userSettings)])
                /\ UNCHANGED lastFinished
  /\ callbacks' = Tail(callbacks)
  /\ UNCHANGED << storage, userSettings, hasSelection, menu, duplicates, batches >>
  /\ UNCHANGED << serviceVars, pageVars, popupVars >>

\* the browser processes the create calls of one callback: a call for an id
\* that exists fails with "Cannot create item with duplicate id"
create ==
  /\ browser # <<>>
  /\ Head(browser).call = "create"
  /\ LET ids == Head(browser).ids
         i == Head(browser).by
     IN  /\ duplicates' = duplicates \cup DuplicateIds(ids, menu)
         /\ menu' = menu \cup { ids[k] : k \in 1..Len(ids) }
         /\ inv' = [inv EXCEPT ![i] = [@ EXCEPT !.pc = "done"]]
         /\ lastFinished' = i
  /\ browser' = Tail(browser)
  /\ batches' = batches + 1
  /\ UNCHANGED << storage, userSettings, hasSelection, callbacks >>
  /\ UNCHANGED << serviceVars, pageVars, popupVars >>

\* the background script with no AI request: only the menus move
InitMenus == InitCommon /\ ~hasLanguageModel /\ pool = {} /\ limit = 0

NextMenus ==
  \/ \E i \in Invocations : onInstalled(i)
  \/ \E i \in Invocations : onStartup(i)
  \/ \E i \in Invocations : \E selected \in BOOLEAN : SelectionChanged(i, selected)
  \/ \E settings \in SavedSettings : saveSettings(settings)
  \/ \E i \in Invocations : loadSettings(i)
  \/ \E i \in Invocations : loadSettingsFails(i)
  \/ removeAll
  \/ removeAllCallback
  \/ create

SpecMenus == InitMenus /\ [][NextMenus]_vars

\* C25 (as claimed): however createContextMenus invocations overlap, no
\* create call is made for an id while an item with that id exists, and every
\* batch of create calls runs on a menu emptied by removeAll with no other
\* batch in between.
C25_NoDuplicateIds == duplicates = {} /\ batches <= 1

\* C26 (as claimed): once an invocation has finished, an entry of translate,
\* proofread, rewrite or summarize exists only if hasSelection was true when
\* the invocation's removeAll callback ran and the feature is enabled in the
\* settings the invocation loaded.
C26_EntriesOfInvocation ==
  \A i \in Invocations :
    (lastFinished = i /\ inv[i].loaded # <<>>) =>
      \A f \in MenuFeatures :
        FeatureEntry(f) \in menu => (inv[i].sel /\ FeatureOn(inv[i].loaded, f))


(***************************************************************************)
(* The content script context.js and its page.  A field's value is a       *)
(* sequence of characters, and offsets count characters.                   *)
(***************************************************************************)
\* the results an AI_RESULT may carry
PageAnswers == { <<"R", "S">> }

\* the text the user has selected in the page when the context menu is used
PageSelection == <<"p", "q">>

\* the selections the user makes in a field: <<selectionStart, selectionEnd>>
Selectable == { <<0, 0>>, <<0, 1>> }

\* the actions handleAIResult applies to the field without asking
DirectActions == {"translate", "proofread", "rewrite"}

\* value.substring(from, to)
Substring(value, from, to) ==
  LET a == IF from > Len(value) THEN Len(value) ELSE from
      b == IF to > Len(value) THEN Len(value) ELSE to
  IN  IF a <= b THEN SubSeq(value, a + 1, b) ELSE SubSeq(value, b + 1, a)

\* getTextFromInput of an INPUT or TEXTAREA
getTextFromInput(f) ==
  LET input == fields[f]
      selectedText == Substring(input.value, input.selectionStart, input.selectionEnd)
  IN  IF Trim(selectedText) = <<>>
        THEN [ text |-> Trim(input.value), isFullText |-> "true",
               start |-> 0, end |-> Len(input.value) ]
        ELSE [ text |-> selectedText, isFullText |-> "false",
               start |-> input.selectionStart, end |-> input.selectionEnd ]

\* the message the dropdown of field f sends for an entry
DropdownMessage(f, entry) ==
  LET textInfo == getTextFromInput(f)
  IN  CASE entry = "translate" ->
             handleTranslateAction(textInfo.text, "es", "Spanish", textInfo.isFullText,
                                   textInfo.start, textInfo.end)
        [] entry = "changeTone" ->
             handleToneChangeAction(textInfo.text, "friendly", "Friendly",
                                    textInfo.isFullText, textInfo.start, textInfo.end)
        [] OTHER ->
             handleContextAction(entry, textInfo.text, textInfo.isFullText,
                                 textInfo.start, textInfo.end)

\* the message handleContextMenuAction sends for an entry of the context menu
handleContextMenuAction(entry) ==
  IF entry = "translate"
    THEN handleRightClickTranslate(PageSelection, "fr", "French", <<1, 2>>)
    ELSE handleRightClickAction(entry, PageSelection, <<1, 2>>)

\* the request a call of chrome.runtime.sendMessage becomes
NextAsk(k) ==
  /\ asked[k].pc = "idle"
  /\ \A j \in 1..(k - 1) : asked[j].pc # "idle"

\* the element that loses the focus when element f gets it
Blurred(f) == IF activeElement # 0 /\ activeElement # f THEN {activeElement} ELSE {}

\* the user focuses field f: the field before it gets a blur event, and
\* handleInputFocus runs
handleInputFocus(f) ==
  /\ activeElement # f
  /\ currentActiveInput' = f
  /\ activeElement' = f
  /\ blurTimers' = blurTimers \cup Blurred(f)
  /\ UNCHANGED << fields, asked, popover, modal, replaceCalls >>
  /\ UNCHANGED << serviceVars, menuVars, popupVars >>

\* the focused field loses the focus to the page: handleInputBlur starts its
\* 150 ms timer
handleInputBlur ==
  /\ activeElement # 0
  /\ activeElement' = 0
  /\ blurTimers' = blurTimers \cup {activeElement}
  /\ UNCHANGED << fields, currentActiveInput, asked, popover, modal, replaceCalls >>
  /\ UNCHANGED << serviceVars, menuVars, popupVars >>

\* the timer of handleInputBlur fires
BlurTimerFires(f, isDropdownOpen) ==
  /\ f \in blurTimers
  /\ blurTimers' = blurTimers \ {f}
  /\ currentActiveInput' =
       IF currentActiveInput = f /\ ~isDropdownOpen THEN 0 ELSE currentActiveInput
  /\ UNCHANGED << fields, activeElement, asked, popover, modal, replaceCalls >>
  /\ UNCHANGED << serviceVars, menuVars, popupVars >>

\* the user selects text in the focused field
Select(f, range) ==
  /\ activeElement = f
  /\ range[2] <= Len(fields[f].value)
  /\ <<fields[f].selectionStart, fields[f].selectionEnd>> # range
  /\ fields' = [fields EXCEPT ![f] = [@ EXCEPT !.selectionStart = range[1],
                                               !.selectionEnd = range[2]]]
  /\ UNCHANGED << currentActiveInput, activeElement, blurTimers, asked, popover,
                  modal, replaceCalls >>
  /\ UNCHANGED << serviceVars, menuVars, popupVars >>

\* the user picks an entry in the dropdown of the field the button is shown
\* for: no message when there is no text, except for generate
DropdownClick(k, entry) ==
  /\ NextAsk(k)
  /\ currentActiveInput # 0
  /\ LET m == DropdownMessage(currentActiveInput, entry)
     IN  /\ entry # "generate" => m.text # <<>>
         /\ asked' = [asked EXCEPT ![k] =
                        [@ EXCEPT !.pc = "sent", !.origin = currentActiveInput, !.msg = m]]
  /\ UNCHANGED << fields, currentActiveInput, activeElement, blurTimers, popover,
                  modal, replaceCalls >>
  /\ UNCHANGED << serviceVars, menuVars, popupVars >>

\* a CONTEXT_MENU_ACTION message arrives for text selected in the page
ContextMenuClick(k, entry) ==
  /\ NextAsk(k)
  /\ asked' = [asked EXCEPT ![k] =
                 [@ EXCEPT !.pc = "sent", !.msg = handleContextMenuAction(entry)]]
  /\ UNCHANGED << fields, currentActiveInput, activeElement, blurTimers, popover,
                  modal, replaceCalls >>
  /\ UNCHANGED << serviceVars, menuVars, popupVars >>

\* the element replaceSelectedText writes to: currentActiveInput, else
\* document.activeElement, else (0) the selection of the document
ReplaceTarget == IF currentActiveInput # 0 THEN currentActiveInput ELSE activeElement

\* the value replaceSelectedText gives the input it writes to
ReplacedValue(input, newText, isFullText, textStart, textEnd) ==
  LET ranged == isFullText = "true" \/ (textStart # -1 /\ textEnd # -1)
      start == IF ranged THEN (IF textStart # -1 THEN textStart ELSE 0)
               ELSE input.selectionStart
      end == IF ranged THEN (IF textEnd # -1 THEN textEnd ELSE Len(input.value))
             ELSE input.selectionEnd
      value == Substring(input.value, 0, start) \o newText
                 \o Substring(input.value, end, Len(input.value))
      caret == IF start + Len(newText) > Len(value) THEN Len(value)
               ELSE start + Len(newText)
  IN  [value |-> value, selectionStart |-> caret, selectionEnd |-> caret]

\* replaceSelectedText: the input it picks gets the text and the focus
replaceSelectedText(newText, isFullText, textStart, textEnd) ==
  LET target == ReplaceTarget
  IN  /\ replaceCalls' = replaceCalls + 1
      /\ IF target # 0
           THEN /\ fields' = [fields EXCEPT ![target] =
                                ReplacedValue(@, newText, isFullText, textStart, textEnd)]
                /\ currentActiveInput' = target
                /\ activeElement' = target
                /\ blurTimers' = blurTimers \cup Blurred(target)
           ELSE UNCHANGED << fields, currentActiveInput, activeElement, blurTimers >>

\* an older handleAIResult, which shows every result in the modal
handleAIResult_AlwaysModal(message) == "modal"

\* handleAIResult: where the result of a message goes
handleAIResult(message) ==
  IF message.isRightClick = "true" THEN "popover"
  ELSE IF message.isInputField = "true" /\ message.action \in DirectActions THEN "replace"
  ELSE "modal"

\* the AI_RESULT of request k arrives
AIResultArrives(k, result) ==
  /\ asked[k].pc = "sent"
  /\ asked' = [asked EXCEPT ![k] = [IdleAsk EXCEPT !.pc = "done"]]
  /\ LET message == AIResult(asked[k].msg, result)
         route == handleAIResult(message)
     IN  CASE route = "popover" ->
                /\ popover' = <<message>>
                /\ UNCHANGED << fields, currentActiveInput, activeElement, blurTimers,
                                modal, replaceCalls >>
           [] route = "replace" ->
                /\ replaceSelectedText(message.result, message.isFullText,
                                       message.textStart, message.textEnd)
                /\ UNCHANGED << popover, modal >>
           [] route = "modal" ->
                /\ modal' = <<message>>
                /\ UNCHANGED << fields, currentActiveInput, activeElement, blurTimers,
                                popover, replaceCalls >>
  /\ UNCHANGED << serviceVars, menuVars, popupVars >>

\* the user clicks Replace in the modal
ModalReplaceClick ==
  /\ modal # <<>>
  /\ replaceSelectedText(modal[1].result, "false", -1, -1)
  /\ modal' = <<>>
  /\ UNCHANGED << asked, popover >>
  /\ UNCHANGED << serviceVars, menuVars, popupVars >>

\* the user closes the modal
ModalClose ==
  /\ modal # <<>>
  /\ modal' = <<>>
  /\ UNCHANGED << fields, currentActiveInput, activeElement, blurTimers, asked,
                  popover, replaceCalls >>
  /\ UNCHANGED << serviceVars, menuVars, popupVars >>

\* the user clicks Insert, Copy or Close in the popover, or it times out:
\* insertTextAtCursor works on the range of the page or on the clipboard,
\* never on a field
PopoverClose ==
  /\ popover # <<>>
  /\ popover' = <<>>
  /\ UNCHANGED << fields, currentActiveInput, activeElement, blurTimers, asked,
                  modal, replaceCalls >>
  /\ UNCHANGED << serviceVars, menuVars, popupVars >>

\* the content script alone: the background answers every request with some
\* result, at some time
InitPage == InitCommon /\ ~hasLanguageModel /\ pool = {} /\ limit = 0

NextPage ==
  \/ \E f \in Fields : handleInputFocus(f)
  \/ handleInputBlur
  \/ \E f \in Fields : \E isDropdownOpen \in BOOLEAN : BlurTimerFires(f, isDropdownOpen)
  \/ \E f \in Fields : \E range \in Selectable : Select(f, range)
  \/ \E k \in Asks : \E entry \in FallbackActions : DropdownClick(k, entry)
  \/ \E k \in Asks : \E entry \in MenuFeatures : ContextMenuClick(k, entry)
  \/ \E k \in Asks : \E result \in PageAnswers : AIResultArrives(k, result)
  \/ ModalReplaceClick
  \/ ModalClose
  \/ PopoverClose

SpecPage == InitPage /\ [][NextPage]_vars


\* the AI_RESULT of request k is handled in this step
Handled(k) == asked[k].pc = "sent" /\ asked'[k].pc = "done"

\* C27 (as claimed): when the AI_RESULT of a translate, proofread or rewrite
\* request of a field arrives, the result replaces the requested range in the
\* field that sent the request, whatever has been focused or blurred since,
\* and the value of no other field changes.
C27_ReplacesInOrigin ==
  [][ \A k \in Asks :
        (Handled(k) /\ asked[k].origin # 0 /\ asked[k].msg.action \in DirectActions) =>
          LET f == asked[k].origin
              m == asked[k].msg
          IN  /\ \A g \in Fields \ {f} : fields'[g].value = fields[g].value
              /\ \E result \in PageAnswers :
                   fields'[f].value =
                     ReplacedValue(fields[f], result, m.isFullText, m.textStart,
                                   m.textEnd).value ]_vars

\* C28: handleAIResult routes a result by its origin.  A right-click result
\* is put in the popover and nothing else happens: no replaceSelectedText
\* call, no field changes.  A result for a field's translate, proofread or
\* rewrite request is passed to replaceSelectedText and shown nowhere.  Every
\* other result is put in the modal and nothing else happens.
C28_RoutedByOrigin ==
  [][ \A k \in Asks :
        Handled(k) =>
          LET m == asked[k].msg
          IN  IF m.isRightClick = "true"
                THEN /\ \E result \in PageAnswers : popover' = << AIResult(m, result) >>
                     /\ modal' = modal /\ fields' = fields
                     /\ replaceCalls' = replaceCalls
              ELSE IF m.isInputField = "true" /\ m.action \in DirectActions
                THEN /\ replaceCalls' = replaceCalls + 1
                     /\ popover' = popover /\ modal' = modal
              ELSE /\ \E result \in PageAnswers : modal' = << AIResult(m, result) >>
                   /\ popover' = popover /\ fields' = fields
                   /\ replaceCalls' = replaceCalls ]_vars

\* the result of a right-click summarize request is in the popover, and no
\* field has been written to
C28_Witness ==
  /\ popover # <<>>
  /\ popover[1].isRightClick = "true" /\ popover[1].action = "summarize"
  /\ replaceCalls = 0
  /\ \A f \in Fields : fields[f].value = InitialValue


(***************************************************************************)
(* The popup popup.js.  An array is held by reference: currentSettings     *)
(* starts as a shallow copy of DEFAULT_SETTINGS, so its languages are the  *)
(* array of DEFAULT_SETTINGS until an assignment gives it one of its own.  *)
(***************************************************************************)
\* the languages of ALL_LANGUAGES whose item the user clicks
ClickedLanguages == {"es", "zh", "ru", "nl"}

\* currentSettings.languages
Languages == arrays[currentSettings.languages]

\* the language codes of a list
Codes(list) == { list[k] : k \in 1..Len(list) }

\* list.filter(l => l.code !== languageCode)
Filter(list, languageCode) == SelectSeq(list, LAMBDA l : l # languageCode)

\* saveSettings of the popup: chrome.storage.sync.set with the settings as
\* they are when it is called
popupSaveSettings(list) ==
  storage' = << [features |-> currentSettings.features, languages |-> list] >>

\* popup.js is loaded: currentSettings = { ...DEFAULT_SETTINGS }, and
\* initializePopup waits for loadSettings
OpenPopup ==
  /\ popupState = "closed"
  /\ popupState' = "loading"
  /\ currentSettings' = [features |-> DEFAULT_SETTINGS.features,
                         languages |-> "DEFAULT_SETTINGS"]
  /\ arrays' = [DEFAULT_SETTINGS |-> DEFAULT_SETTINGS.languages, own |-> <<>>]
  /\ UNCHANGED storage
  /\ UNCHANGED << userSettings, hasSelection, inv, browser, callbacks, menu,
                  duplicates, batches, lastFinished >>
  /\ UNCHANGED << serviceVars, pageVars >>

\* loadSettings of the popup: stored settings replace the copied fields
popupLoadSettings ==
  /\ popupState = "loading"
  /\ popupState' = "open"
  /\ IF storage # <<>>
       THEN /\ currentSettings' = [features |-> storage[1].features, languages |-> "own"]
            /\ arrays' = [arrays EXCEPT !.own = storage[1].languages]
       ELSE UNCHANGED << currentSettings, arrays >>
  /\ UNCHANGED storage
  /\ UNCHANGED << userSettings, hasSelection, inv, browser, callbacks, menu,
                  duplicates, batches, lastFinished >>
  /\ UNCHANGED << serviceVars, pageVars >>

\* chrome.storage.sync.get rejects: the catch block of loadSettings
popupLoadSettingsFails ==
  /\ popupState = "loading"
  /\ popupState' = "open"
  /\ UNCHANGED << currentSettings, arrays, storage >>
  /\ UNCHANGED << userSettings, hasSelection, inv, browser, callbacks, menu,
                  duplicates, batches, lastFinished >>
  /\ UNCHANGED << serviceVars, pageVars >>

\* addLanguage without the look-up of the code
addLanguage_NoLookup(language) ==
  /\ popupState = "open"
  /\ arrays' = [arrays EXCEPT ![currentSettings.languages] = Append(@, language)]
  /\ popupSaveSettings(Append(Languages, language))
  /\ UNCHANGED << currentSettings, popupState >>
  /\ UNCHANGED << userSettings, hasSelection, inv, browser, callbacks, menu,
                  duplicates, batches, lastFinished >>
  /\ UNCHANGED << serviceVars, pageVars >>

\* addLanguage: push onto the array currentSettings.languages refers to
addLanguage(language) ==
  /\ popupState = "open"
  /\ language \notin Codes(Languages)
  /\ arrays' = [arrays EXCEPT ![currentSettings.languages] = Append(@, language)]
  /\ popupSaveSettings(Append(Languages, language))
  /\ UNCHANGED << currentSettings, popupState >>
  /\ UNCHANGED << userSettings, hasSelection, inv, browser, callbacks, menu,
                  duplicates, batches, lastFinished >>
  /\ UNCHANGED << serviceVars, pageVars >>

\* removeLanguage: filter makes a new array
removeLanguage(languageCode) ==
  /\ popupState = "open"
  /\ languageCode \in Codes(Languages)
  /\ arrays' = [arrays EXCEPT !.own = Filter(Languages, languageCode)]
  /\ currentSettings' = [currentSettings EXCEPT !.languages = "own"]
  /\ popupSaveSettings(Filter(Languages, languageCode))
  /\ UNCHANGED popupState
  /\ UNCHANGED << userSettings, hasSelection, inv, browser, callbacks, menu,
                  duplicates, batches, lastFinished >>
  /\ UNCHANGED << serviceVars, pageVars >>

\* resetLanguages: a copy of the array DEFAULT_SETTINGS.languages is now
resetLanguages ==
  /\ popupState = "open"
  /\ arrays' = [arrays EXCEPT !.own = arrays.DEFAULT_SETTINGS]
  /\ currentSettings' = [currentSettings EXCEPT !.languages = "own"]
  /\ popupSaveSettings(arrays.DEFAULT_SETTINGS)
  /\ UNCHANGED popupState
  /\ UNCHANGED << userSettings, hasSelection, inv, browser, callbacks, menu,
                  duplicates, batches, lastFinished >>
  /\ UNCHANGED << serviceVars, pageVars >>

\* the popup is closed: its script and everything it holds are gone
ClosePopup ==
  /\ popupState # "closed"
  /\ popupState' = "closed"
  /\ currentSettings' = <<>>
  /\ arrays' = <<>>
  /\ UNCHANGED storage
  /\ UNCHANGED << userSettings, hasSelection, inv, browser, callbacks, menu,
                  duplicates, batches, lastFinished >>
  /\ UNCHANGED << serviceVars, pageVars >>

\* the popup alone, with or without settings stored by an earlier session
InitPopup ==
  /\ InitScripts /\ ~hasLanguageModel /\ pool = {} /\ limit = 0
  /\ storage \in { <<>> } \cup { <<settings>> : settings \in SavedSettings }

NextPopup ==
  \/ OpenPopup
  \/ popupLoadSettings
  \/ popupLoadSettingsFails
  \/ \E language \in ClickedLanguages : addLanguage(language)
  \/ \E languageCode \in ClickedLanguages : removeLanguage(languageCode)
  \/ resetLanguages
  \/ ClosePopup

SpecPopup == InitPopup /\ [][NextPopup]_vars

\* C29 (as claimed): resetLanguages leaves the popup with the eight built-in
\* default languages, after any addLanguage, removeLanguage and
\* resetLanguages calls, also when no settings were stored before the popup
\* was opened.
C29_ResetRestoresDefaults ==
  [][ resetLanguages => Languages' = DEFAULT_SETTINGS.languages ]_vars

\* no code occurs twice in a list
Distinct(list) == \A j, k \in 1..Len(list) : list[j] = list[k] => j = k

\* C30: the popup's language list never holds two entries with the same
\* code, whatever addLanguage, removeLanguage and resetLanguages calls are
\* made, the stored list it started from having distinct codes.
C30_DistinctCodes == popupState = "open" => Distinct(Languages)

\* a language was added to the list the popup shares with DEFAULT_SETTINGS
\* and the list was then reset: it holds that language once
C30_Witness ==
  /\ popupState = "open"
  /\ currentSettings.languages = "own"
  /\ Len(Languages) = 9 /\ Languages[9] = "ru"
  /\ arrays.DEFAULT_SETTINGS = Languages

====
